---- MODULE Spec2Model ----
(***************************************************************************)
(* Subscription reconciliation and entitlement engine of reportflow-backend *)
(* (services/payment-service.js, middleware/usage-limits.js and the        *)
(* increment_usage migration), modelled as a state machine over the store's *)
(* rows: tenant_subscriptions, tenant_usage, subscription_events and        *)
(* upgrade_history.                                                         *)
(*                                                                          *)
(* Time is counted in whole days.  A nullable number is NULL (-1) when it   *)
(* is null or undefined; a nullable row is NoRow.                           *)
(***************************************************************************)
EXTENDS Integers, Sequences, FiniteSets, TLC

\* ---------------------------------------------------------------- bounds
\* first day of the clock, and the last day the clock may reach
StartDay == 24
MaxTime == 32
\* largest plan limit and largest stored counter drawn for a gate check
MaxLimit == 1
MaxCount == 1
\* number of usage-counting requests made in one behaviour
MaxRequests == 3
\* number of webhook deliveries received in one behaviour
MaxDeliveries == 2
\* cancellations requested through POST /cancel-subscription in one behaviour
MaxCancels == 1
\* length of a calendar month in days (months are numbered now \div DaysPerMonth)
DaysPerMonth == 30

\* ------------------------------------------------------ program constants
\* handlePaymentFailure: this.calculatePeriodEnd(7)
GracePeriodDays == 7

NULL == -1
NoRow == [exists |-> FALSE]

Tenants == {"t1", "t2"}
PlanIds == {"starter"}
\* a plan_id with no row in plans: createSubscription stores the price id
\* as plan_id when no plan_id is passed
PriceIds == {"price_x"}
Statuses == {"trialing", "active", "past_due", "grace", "canceled", "incomplete"}
Limits == {NULL} \cup (0..MaxLimit)
Counts == 0..MaxCount
Months == 0..(MaxTime \div DaysPerMonth)
\* outcome of one store call: answered, answered with {error}, or thrown
Faults == {"ok", "error", "throw"}

VARIABLES
  now,        \* the clock, in days
  plans,      \* plans table: plan id -> limits (immutable reference data)
  subs,       \* tenant_subscriptions: tenant id -> row or NoRow (unique on tenant_id)
  usage,      \* tenant_usage: <<tenant id, month>> -> row or NoRow
  decision,   \* the Decision returned by the gate call of the latest step, with
              \* what it read; NoDecision when the latest step was not a gate call
  ledger,     \* subscription_events rows, in insertion order
  history,    \* upgrade_history rows, in insertion order
  deliv,      \* webhook deliveries being handled: slot -> position in handleWebhook
  started,    \* number of webhook deliveries received so far
  dispatched, \* processWebhookEvent calls so far: <<slot, event id>>, in order
  reqs,       \* usage-counting requests so far, each with its position
  credited,   \* <<tenant, month>> -> per counter, the amounts of the increment
              \* calls that completed without a store fault
  tenants,    \* tenants table: tenant id -> row with its dodo_customer_id
  call,       \* the tryEndpoints call in progress or just finished
  op          \* what the latest createCustomer / createSubscription call did
              \* and returned, and n, the number of such calls so far

store == <<plans, subs, usage, ledger, history>>
hooks == <<deliv, started, dispatched>>
meter == <<reqs, credited>>
gateway == <<tenants, call, op>>
vars == <<now, plans, subs, usage, decision, ledger, history, deliv, started,
          dispatched, reqs, credited, tenants, call, op>>

\* new Date().toISOString().slice(0, 7) + '-01'
CurrentMonth(t) == t \div DaysPerMonth

\* calculatePeriodEnd(days): date.setDate(date.getDate() + (days || 0))
calculatePeriodEnd(t, days) == t + (IF days = NULL THEN 0 ELSE days)

\* JavaScript truthiness of a nullable number: null, undefined and 0 are falsy
Truthy(x) == x # NULL /\ x # 0

PlanRows == [max_reports_per_month : Limits, max_clients : Limits,
             max_data_sources : Limits]
UsageRows == [exists : {TRUE}, reports_sent : Counts, client_count : Counts,
              data_sources_connected : Counts]

\* the embedded plans(...) of a subscription select: the plans row of plan_id,
\* or NoRow when plan_id names no plan
PlansJoin(row) ==
  IF row.plan_id \in DOMAIN plans
    THEN [exists |-> TRUE] @@ plans[row.plan_id]
    ELSE NoRow

\* supabase ...select().single(): {data, error}; zero rows is an error too
Single(row, fault) ==
  IF fault = "error" THEN [data |-> NoRow, error |-> "store error"]
  ELSE IF ~row.exists THEN [data |-> NoRow, error |-> "no rows"]
  ELSE [data |-> row, error |-> ""]

ZeroUsage == [reports_sent |-> 0, client_count |-> 0, data_sources_connected |-> 0]

\* no tenant has a provider customer id yet
NoCustomers == [t \in Tenants |-> [exists |-> TRUE, dodo_customer_id |-> ""]]
\* tryEndpoints is not running
NoCall == [pc |-> "idle"]
NoOp == [name |-> "none", n |-> 0]

NothingCredited == [k \in Tenants \X Months |-> ZeroUsage]

UsageOf(u) == [reports_sent |-> u.reports_sent, client_count |-> u.client_count,
               data_sources_connected |-> u.data_sources_connected]

\* plan.max_x of `subscription.plans || {}`: undefined when there is no plan
PlanLimit(plan, field) == IF plan.exists THEN plan[field] ELSE NULL

LimitsOf(plan) ==
  [reports |-> PlanLimit(plan, "max_reports_per_month"),
   clients |-> PlanLimit(plan, "max_clients"),
   data_sources |-> PlanLimit(plan, "max_data_sources")]

NoLimits == [reports |-> NULL, clients |-> NULL, data_sources |-> NULL]

Decision(allowed, reason, status, limitType, error, usg, limits) ==
  [allowed |-> allowed, reason |-> reason, status |-> status,
   limitType |-> limitType, error |-> error, usage |-> usg, limits |-> limits]

\* if (plan.max_x && currentUsage.x >= plan.max_x)
Exceeded_strictly(limit, used) == Truthy(limit) /\ used > limit

Exceeded(limit, used) == Truthy(limit) /\ used >= limit

\* the `switch (usageType)` of checkUsageLimits: the exceeded limit type or ""
LimitTypeExceeded(usageType, lim, cur) ==
  CASE usageType = "reports" ->
         IF Exceeded(lim.reports, cur.reports_sent) THEN "reports" ELSE ""
    [] usageType = "clients" ->
         IF Exceeded(lim.clients, cur.client_count) THEN "clients" ELSE ""
    [] usageType = "data_sources" ->
         IF Exceeded(lim.data_sources, cur.data_sources_connected)
           THEN "data_sources" ELSE ""
    [] OTHER ->
         IF Exceeded(lim.reports, cur.reports_sent) THEN "reports" ELSE ""

\* subscription.grace_period_until && new Date() < new Date(grace_period_until)
InGracePeriod_strictness(s, t) ==
  s.grace_period_until # NULL /\ t <= s.grace_period_until

InGracePeriod(s, t) == s.grace_period_until # NULL /\ t < s.grace_period_until

\* the catch block of checkUsageLimits
FailOpen ==
  Decision(TRUE, "Error checking usage, allowing request", "", "",
           "thrown", NoRow, NoLimits)

\* PaymentService.checkUsageLimits(tenantId, usageType) at time t, reading the
\* subscription row sub (with its plans join) and the month's usage row usg;
\* subFault and usageFault are the outcomes of the two store reads
checkUsageLimits(sub, subFault, usg, usageFault, t, usageType) ==
  LET sr == Single(sub, subFault)
      ur == Single(usg, usageFault)
      s == sr.data
      cur == IF ur.data.exists THEN UsageOf(ur.data) ELSE ZeroUsage
      lim == LimitsOf(s.plans)
      lt == LimitTypeExceeded(usageType, lim, cur)
  IN  IF subFault = "throw" THEN FailOpen
      ELSE IF sr.error # "" \/ ~s.exists
        THEN Decision(FALSE, "No active subscription found", "", "",
                      sr.error, NoRow, NoLimits)
      ELSE IF s.status # "active"
        THEN IF InGracePeriod(s, t)
               THEN Decision(TRUE, "In grace period", "", "", "", NoRow, NoLimits)
               ELSE Decision(FALSE, "Subscription is", s.status, "", "",
                             NoRow, NoLimits)
      ELSE IF usageFault = "throw" THEN FailOpen
      ELSE IF lt # ""
        THEN Decision(FALSE, "Plan limit exceeded", "", lt, "", cur, lim)
      ELSE Decision(TRUE, "", "", "", "", cur, lim)

\* what a middleware gate answers: next() is called (http = 0) or a response
\* with an HTTP status is sent
MwNext(info) == [allowed |-> TRUE, http |-> 0, error |-> "", limitType |-> "",
                 current |-> NULL, max |-> NULL, info |-> info]
MwDeny(http, error, limitType, current, max) ==
  [allowed |-> FALSE, http |-> http, error |-> error, limitType |-> limitType,
   current |-> current, max |-> max, info |-> NoRow]

Routes == {"/api/reporter/generate", "/api/clients/create", "/"}

\* UsageTrackingMiddleware.checkUsage(req, res, next) of middleware/usage-limits.js
\* for a request of tenant `tenant` ("" when the request names none) on `route`
MwCheckUsage(tenant, sub, subFault, usg, usageFault, t, route) ==
  LET sr == Single(sub, subFault)
      ur == Single(usg, usageFault)
      s == sr.data
      cur == IF ur.data.exists THEN UsageOf(ur.data) ELSE ZeroUsage
      plan == s.plans
      lt == IF route = "/api/reporter/generate"
              THEN IF Exceeded(plan.max_reports_per_month, cur.reports_sent)
                     THEN "reports" ELSE ""
            ELSE IF route = "/api/clients/create"
              THEN IF Exceeded(plan.max_clients, cur.client_count)
                     THEN "clients" ELSE ""
            ELSE ""
  IN  IF tenant = ""
        THEN MwDeny(400, "Tenant ID required for usage tracking", "", NULL, NULL)
      ELSE IF subFault = "throw" THEN MwNext(NoRow)
      ELSE IF sr.error # "" \/ ~s.exists
        THEN MwDeny(403, "No active subscription found", "", NULL, NULL)
      ELSE IF InGracePeriod(s, t)
        THEN MwNext(NoRow)
      ELSE IF s.status # "active"
        THEN MwDeny(403, "Subscription not active", "", NULL, NULL)
      ELSE IF usageFault = "throw" THEN MwNext(NoRow)
      \* plan.max_x of a null plan throws a TypeError, caught by the catch block
      ELSE IF ~plan.exists /\ route # "/" THEN MwNext(NoRow)
      ELSE IF lt # ""
        THEN MwDeny(429, "Plan limit exceeded for", lt, NULL, NULL)
      ELSE MwNext([exists |-> TRUE, tenantId |-> tenant, currentUsage |-> cur,
                   route |-> route])

\* the row the checkUsage query of the function middleware selects:
\* .eq('status', 'active').gte('current_period_end', now) with plans!inner
ActiveSubscription(sub, t) ==
  IF sub.exists /\ sub.status = "active" /\ sub.current_period_end >= t
     /\ sub.plans.exists
    THEN sub ELSE NoRow

\* checkUsage(req, res, next) of the function middleware (exports checkUsage,
\* incrementUsage), the one routes/unified-reporter.js puts in front of /generate
FnCheckUsage(tenant, sub, subFault, usg, usageFault, t) ==
  LET sr == Single(ActiveSubscription(sub, t), subFault)
      ur == Single(usg, usageFault)
      s == sr.data
      cur == IF ur.data.exists THEN UsageOf(ur.data) ELSE ZeroUsage
      planLimits == s.plans
  IN  IF tenant = "" THEN MwNext(NoRow)
      ELSE IF subFault = "throw" THEN MwNext(NoRow)
      ELSE IF sr.error # "" \/ ~s.exists THEN MwNext(NoRow)
      ELSE IF usageFault = "throw" THEN MwNext(NoRow)
      ELSE IF planLimits.max_reports_per_month # NULL
              /\ cur.reports_sent >= planLimits.max_reports_per_month
        THEN MwDeny(429, "Plan limit exceeded", "reports_per_month",
                    cur.reports_sent, planLimits.max_reports_per_month)
      ELSE MwNext([exists |-> TRUE, tenantId |-> tenant, currentUsage |-> cur,
                   route |-> "/generate"])

\* ------------------------------------------------------------ gate calls
NoDecision == [gate |-> "none"]

\* the subscription row of a tenant as the gate's select returns it
Joined(row) == IF row.exists THEN row @@ [plans |-> PlansJoin(row)] ELSE NoRow

\* the usage read is reached only when the subscription read answered
FaultPairs == {fp \in Faults \X Faults : fp[1] # "ok" => fp[2] = "ok"}

Called(gate, tenant, kind, fp, result) ==
  [gate |-> gate, tenant |-> tenant, at |-> now, kind |-> kind,
   sub |-> Joined(subs[tenant]), subFault |-> fp[1],
   usg |-> usage[<<tenant, CurrentMonth(now)>>], usageFault |-> fp[2],
   result |-> result]

UsageTypes == {"reports", "clients", "data_sources", "general"}

\* a caller asks PaymentService.checkUsageLimits(tenant, usageType)
CallCheckUsageLimits(tenant, usageType, fp) ==
  /\ decision' = Called("checkUsageLimits", tenant, usageType, fp,
       checkUsageLimits(Joined(subs[tenant]), fp[1],
                        usage[<<tenant, CurrentMonth(now)>>], fp[2],
                        now, usageType))
  /\ UNCHANGED <<now, store, hooks, meter, gateway>>

\* a request passes through UsageTrackingMiddleware.checkUsage
CallMwCheckUsage(tenant, route, fp) ==
  /\ decision' = Called("UsageTrackingMiddleware.checkUsage", tenant, route, fp,
       MwCheckUsage(tenant, Joined(subs[tenant]), fp[1],
                    usage[<<tenant, CurrentMonth(now)>>], fp[2], now, route))
  /\ UNCHANGED <<now, store, hooks, meter, gateway>>

\* a request passes through the function middleware checkUsage
CallFnCheckUsage(tenant, fp) ==
  /\ decision' = Called("checkUsage", tenant, "/generate", fp,
       FnCheckUsage(tenant, Joined(subs[tenant]), fp[1],
                    usage[<<tenant, CurrentMonth(now)>>], fp[2], now))
  /\ UNCHANGED <<now, store, hooks, meter, gateway>>

\* ------------------------------------------------- gate specification
\* The gate is a function of the rows it reads, the clock and the outcome of
\* its reads: every combination is drawn for tenant t1 and the gates are called.
GateStatuses == {"trialing", "active", "past_due", "canceled"}

GateSubRows ==
  [exists : {TRUE}, tenant_id : {"t1"}, plan_id : PlanIds \cup PriceIds,
   status : GateStatuses, dodo_subscription_id : {"sub_1"},
   current_period_start : {StartDay},
   current_period_end : {StartDay, StartDay + 2},
   grace_period_until : {NULL, StartDay + 1}, canceled_at : {NULL}]

\* a plans table whose limits play no part: all unlimited
UnlimitedPlans ==
  [p \in PlanIds |-> [max_reports_per_month |-> NULL, max_clients |-> NULL,
                      max_data_sources |-> NULL]]

InitGate ==
  /\ now \in StartDay..(StartDay + 2)
  /\ plans \in [PlanIds -> PlanRows]
  /\ \E r \in GateSubRows \cup {NoRow} :
       /\ subs = [t \in Tenants |-> IF t = "t1" THEN r ELSE NoRow]
       \* the limits are varied for the rows that refer to the plan
       /\ (r.exists /\ r.plan_id \in PlanIds) \/ plans = UnlimitedPlans
  /\ \E u \in UsageRows \cup {NoRow} :
       usage = [k \in Tenants \X Months |->
                  IF k = <<"t1", CurrentMonth(now)>> THEN u ELSE NoRow]
  /\ decision = NoDecision
  /\ ledger = <<>> /\ history = <<>>
  /\ deliv = <<>> /\ started = 0 /\ dispatched = <<>>
  /\ reqs = <<>> /\ credited = NothingCredited
  /\ tenants = NoCustomers /\ call = NoCall /\ op = NoOp

\* one gate call is made on each drawn input
GateCheckUsageLimits ==
  /\ decision = NoDecision
  /\ \E usageType \in UsageTypes, fp \in FaultPairs :
       CallCheckUsageLimits("t1", usageType, fp)

GateMwCheckUsage ==
  /\ decision = NoDecision
  /\ \E route \in Routes, fp \in FaultPairs : CallMwCheckUsage("t1", route, fp)

GateFnCheckUsage ==
  /\ decision = NoDecision
  /\ \E fp \in FaultPairs : CallFnCheckUsage("t1", fp)

NextGate == GateCheckUsageLimits \/ GateMwCheckUsage \/ GateFnCheckUsage

SpecGate == InitGate /\ [][NextGate]_vars

\* ------------------------------------------------------------ gate claims
\* the last gate call was checkUsageLimits and its subscription read returned a row
ServiceSawRow ==
  /\ decision.gate = "checkUsageLimits"
  /\ decision.subFault = "ok"
  /\ decision.sub.exists

\* the last gate call read an active subscription with a plan and its usage read
\* answered (a row, or no row: all counters zero)
SawActiveWithPlan ==
  /\ decision.gate # "none"
  /\ decision.subFault = "ok" /\ decision.usageFault = "ok"
  /\ decision.sub.exists /\ decision.sub.status = "active"
  /\ decision.sub.plans.exists

UsedBy(d) == IF d.usg.exists THEN UsageOf(d.usg) ELSE ZeroUsage

\* C4: for a subscription whose status is not active, checkUsageLimits allows
\* with reason "In grace period" when grace_period_until = G is set and the call
\* is made at a time t < G, and otherwise (t >= G, or no grace_period_until)
\* denies with the subscription's status as the reason.
C4_GraceBoundary ==
  (ServiceSawRow /\ decision.sub.status # "active") =>
     IF decision.sub.grace_period_until # NULL
        /\ decision.at < decision.sub.grace_period_until
       THEN /\ decision.result.allowed
            /\ decision.result.reason = "In grace period"
       ELSE /\ ~decision.result.allowed
            /\ decision.result.reason = "Subscription is"
            /\ decision.result.status = decision.sub.status

\* a past_due subscription checked exactly at its grace_period_until is denied
C4_Witness ==
  /\ ServiceSawRow
  /\ decision.sub.status = "past_due"
  /\ decision.sub.grace_period_until = decision.at
  /\ ~decision.result.allowed

\* C5 (as claimed): an active subscription whose plan has max_reports_per_month
\* = L is denied a report by checkUsageLimits with reason "Plan limit exceeded"
\* and limit type reports exactly when reports_sent >= L, for every L >= 0; with
\* L null it is allowed for every reports_sent.
C5_QuotaBoundary ==
  (SawActiveWithPlan /\ decision.gate = "checkUsageLimits"
     /\ decision.kind = "reports") =>
     LET L == decision.sub.plans.max_reports_per_month
         u == UsedBy(decision).reports_sent
     IN  IF L # NULL /\ u >= L
           THEN /\ ~decision.result.allowed
                /\ decision.result.reason = "Plan limit exceeded"
                /\ decision.result.limitType = "reports"
           ELSE decision.result.allowed

\* C7 (as claimed): a non-active subscription inside its grace period whose
\* reports_sent has reached a positive max_reports_per_month is denied a report.
C7_GraceStillLimited ==
  (/\ decision.gate \in {"checkUsageLimits", "UsageTrackingMiddleware.checkUsage"}
   /\ decision.kind \in {"reports", "/api/reporter/generate"}
   /\ decision.subFault = "ok" /\ decision.usageFault = "ok"
   /\ decision.sub.exists /\ decision.sub.status # "active"
   /\ InGracePeriod(decision.sub, decision.at)
   /\ decision.sub.plans.exists
   /\ decision.sub.plans.max_reports_per_month >= 1
   /\ UsedBy(decision).reports_sent >= decision.sub.plans.max_reports_per_month)
  => ~decision.result.allowed

\* C8 (as claimed): every gate denies a tenant that has no Subscription row.
C8_NoSubscriptionDenied ==
  (/\ decision.gate # "none"
   /\ decision.subFault = "ok"
   /\ ~decision.sub.exists)
  => ~decision.result.allowed

\* C9 (as claimed): when a store read of checkUsageLimits fails (returns an
\* error or throws), the decision is allowed = true and carries the error.
C9_FailsOpen ==
  (/\ decision.gate = "checkUsageLimits"
   /\ (decision.subFault # "ok" \/ decision.usageFault # "ok"))
  => /\ decision.result.allowed
     /\ decision.result.error # ""

\* a counter is bounded by a plan limit and has reached it
AtLimit(limit, used) == limit # NULL /\ limit >= 1 /\ used >= limit

\* C10 (as claimed): for an active subscription, checkUsage(tenantId) (usage
\* type left at its default, reports) denies when any of reports_sent,
\* client_count, data_sources_connected has reached its positive plan limit.
C10_AnyCounterDenies ==
  (/\ SawActiveWithPlan
   /\ \/ decision.gate = "checkUsageLimits" /\ decision.kind = "reports"
      \/ decision.gate = "checkUsage"
   /\ \/ AtLimit(decision.sub.plans.max_reports_per_month,
                 UsedBy(decision).reports_sent)
      \/ AtLimit(decision.sub.plans.max_clients, UsedBy(decision).client_count)
      \/ AtLimit(decision.sub.plans.max_data_sources,
                 UsedBy(decision).data_sources_connected))
  => ~decision.result.allowed

\* ------------------------------------------------------ webhook ingestion
\* A webhook body after JSON.parse; "" is an absent string field, NULL an
\* absent number, and cancel_at_period_end is "undefined", "true" or "false".
\*   id, event_id, data_id             payload.id, payload.event_id, payload.data.id
\*   type                              payload.type
\*   object_id, subscription_id,       payload.data.object.id,
\*   subscription                      payload.data.subscription_id, payload.subscription
\*   tenant                            payload.metadata.reportflow_tenant_id
\*   status, current_period_end,       top-level fields read by
\*   cancel_at_period_end              handleSubscriptionUpdated
\*   object_status,                    payload.data.object.status,
\*   object_current_period_end,        payload.data.object.current_period_end,
\*   object_cancel_at_period_end       payload.data.object.cancel_at_period_end
\*   amount                            payload.data.object.amount_paid
Event(id, dataId, type, objectId, tenant) ==
  [id |-> id, event_id |-> "", data_id |-> dataId, type |-> type,
   object_id |-> objectId, subscription_id |-> "", subscription |-> "",
   tenant |-> tenant, status |-> "", current_period_end |-> NULL,
   cancel_at_period_end |-> "undefined", object_status |-> "",
   object_current_period_end |-> NULL,
   object_cancel_at_period_end |-> "undefined", amount |-> NULL]

\* a || b || c on strings
Or3(a, b, c) == IF a # "" THEN a ELSE IF b # "" THEN b ELSE c

\* `webhook_${Date.now()}`: the id generated for the n-th delivery
GeneratedIds == <<"webhook_1", "webhook_2", "webhook_3", "webhook_4",
                  "webhook_5", "webhook_6">>

\* payload.id || payload.event_id || payload.data?.id || `webhook_${Date.now()}`
EventIdOf(p, n) ==
  LET given == Or3(p.id, p.event_id, p.data_id)
  IN  IF given # "" THEN given ELSE GeneratedIds[n]

\* payload.type || payload.event || 'unknown'
EventTypeOf(p) == IF p.type # "" THEN p.type ELSE "unknown"

\* payload.data?.object?.id || payload.data?.subscription_id || payload.subscription
SubscriptionIdOf(p) == Or3(p.object_id, p.subscription_id, p.subscription)

\* the signature a sender holding `secret` computes over a body: HMAC-SHA256
\* is modelled as the pair it is a function of
Hmac(secret, body) == <<secret, body>>
NoHeader == [present |-> FALSE]
\* a signature header: an optional "sha256=" prefix, the hex digits of a
\* digest, and whatever characters follow them ("" when none)
Header(prefixed, hex, tail) ==
  [present |-> TRUE, prefixed |-> prefixed, hex |-> hex, tail |-> tail]

\* Buffer.from(receivedSignature, 'hex'): decoding stops at the first
\* character that is not a hex digit, so the tail is dropped
HexDecode(signature) == signature.hex

\* verifyDodoSignature(rawBody, signatureHeader, secret): strips an optional
\* "sha256=" prefix, decodes both signatures from hex and compares the bytes
verifyDodoSignature_anyKey(rawBody, signatureHeader, secret) ==
  HexDecode(signatureHeader)[2] = rawBody

verifyDodoSignature(rawBody, signatureHeader, secret) ==
  HexDecode(signatureHeader) = Hmac(secret, rawBody)

\* POST /webhook: the response sent for an outcome of handleWebhook
NoResponse == [sent |-> FALSE]
WebhookRoute(outcome) ==
  IF outcome \in {"processed", "duplicate"}
    THEN [sent |-> TRUE, status |-> 200, success |-> TRUE, error |-> ""]
    ELSE [sent |-> TRUE, status |-> 200, success |-> FALSE, error |-> outcome]

\* fault is the outcome of the store write of the handler the delivery was
\* dispatched to ("" before the dispatch)
IdleSlot == [pc |-> "idle", payload |-> NoRow, eventId |-> "", eventType |-> "",
             tenantId |-> "", result |-> "", fault |-> "",
             response |-> NoResponse]

\* handleWebhook returned or threw `outcome` and the route answered
Answered(slot, outcome) ==
  [slot EXCEPT !.pc = "done", !.result = outcome,
               !.response = WebhookRoute(outcome)]

\* handleWebhook up to its first await: verify the signature, parse the body,
\* derive event id, event type and tenant id.  secret = "" is an unset
\* DODO_WEBHOOK_SIGNING_SECRET.
Receive(d, p, secret, header) ==
  /\ deliv[d].pc \in {"idle", "done"}
  /\ started < MaxDeliveries
  /\ started' = started + 1
  /\ IF secret # "" /\ (~header.present \/ ~verifyDodoSignature(p, header, secret))
       THEN deliv' = [deliv EXCEPT ![d] =
              Answered([IdleSlot EXCEPT !.payload = p],
                       IF header.present THEN "Invalid webhook signature"
                       ELSE "Missing webhook signature header")]
       ELSE deliv' = [deliv EXCEPT ![d] =
              [IdleSlot EXCEPT !.pc = "lookup", !.payload = p,
                 !.eventId = EventIdOf(p, started + 1),
                 !.eventType = EventTypeOf(p), !.tenantId = p.tenant]]
  /\ decision' = NoDecision
  /\ UNCHANGED <<now, store, dispatched, meter, gateway>>

\* subscription_events rows with a given event_id
RowsWithEventId(id) == {i \in DOMAIN ledger : ledger[i].event_id = id}

\* existingEvent && existingEvent.length > 0
IsDuplicate_moreThanOne(id) == Cardinality(RowsWithEventId(id)) > 1

IsDuplicate(id) == RowsWithEventId(id) # {}

\* the duplicate check: select id from subscription_events where event_id = eventId
Lookup(d) ==
  /\ deliv[d].pc = "lookup"
  /\ IF IsDuplicate(deliv[d].eventId)
       THEN deliv' = [deliv EXCEPT ![d] = Answered(deliv[d], "duplicate")]
       ELSE deliv' = [deliv EXCEPT ![d].pc = "insert"]
  /\ decision' = NoDecision
  /\ UNCHANGED <<now, store, started, dispatched, meter, gateway>>

EventRow(eventId, eventType, tenantId, metadata) ==
  [event_id |-> eventId, event_type |-> eventType, tenant_id |-> tenantId,
   metadata |-> metadata]

\* the insert into subscription_events; when the store rejects it
\* handleWebhook throws "Failed to store webhook event"
Insert_dispatchesAnyway(d, fault) ==
  /\ deliv[d].pc = "insert"
  /\ IF fault # "ok"
       THEN /\ deliv' = [deliv EXCEPT ![d].pc = "dispatch"]
            /\ UNCHANGED ledger
       ELSE /\ ledger' = Append(ledger,
                 EventRow(deliv[d].eventId, deliv[d].eventType,
                          deliv[d].tenantId, deliv[d].payload))
            /\ deliv' = [deliv EXCEPT ![d].pc = "dispatch"]
  /\ decision' = NoDecision
  /\ UNCHANGED <<now, plans, subs, usage, history, started, dispatched, meter, gateway>>

Insert(d, fault) ==
  /\ deliv[d].pc = "insert"
  /\ IF fault # "ok"
       THEN /\ deliv' = [deliv EXCEPT ![d] =
                   Answered(deliv[d], "Failed to store webhook event")]
            /\ UNCHANGED ledger
       ELSE /\ ledger' = Append(ledger,
                 EventRow(deliv[d].eventId, deliv[d].eventType,
                          deliv[d].tenantId, deliv[d].payload))
            /\ deliv' = [deliv EXCEPT ![d].pc = "dispatch"]
  /\ decision' = NoDecision
  /\ UNCHANGED <<now, plans, subs, usage, history, started, dispatched, meter, gateway>>

\* --------------------------------------------------- subscription state machine
\* update(upd).eq('dodo_subscription_id', subscriptionId) on tenant_subscriptions
UpdateSubscription_everyRow(table, subscriptionId, upd) ==
  [t \in Tenants |-> IF table[t].exists THEN upd @@ table[t] ELSE table[t]]

UpdateSubscription(table, subscriptionId, upd) ==
  [t \in Tenants |->
     IF table[t].exists /\ table[t].dodo_subscription_id = subscriptionId
       THEN upd @@ table[t] ELSE table[t]]

\* select(...).eq('dodo_subscription_id', subscriptionId).single()
SubscriptionBy(table, subscriptionId) ==
  LET hit == {t \in Tenants : table[t].exists
                              /\ table[t].dodo_subscription_id = subscriptionId}
  IN  IF Cardinality(hit) = 1 THEN table[CHOOSE t \in hit : TRUE] ELSE NoRow

\* the row handlePaymentSuccess writes
PaymentSuccessUpdate_keepsGrace == [status |-> "active"]

PaymentSuccessUpdate == [status |-> "active", grace_period_until |-> NULL]

\* handlePaymentSuccess(subscriptionId, paymentData); fault is the outcome of
\* its update call
handlePaymentSuccess(subscriptionId, paymentData, fault) ==
  LET after == IF subscriptionId # "" /\ fault = "ok"
                 THEN UpdateSubscription(subs, subscriptionId, PaymentSuccessUpdate)
                 ELSE subs
      subscription == SubscriptionBy(after, subscriptionId)
  IN  /\ subs' = after
      /\ IF fault # "throw" /\ subscription.exists
           THEN history' = Append(history,
                  [tenant_id |-> subscription.tenant_id,
                   plan_id |-> subscription.plan_id,
                   amount_paid |-> paymentData.amount,
                   dodo_payment_id |-> paymentData.id,
                   status |-> "completed"])
           ELSE UNCHANGED history
      /\ UNCHANGED ledger

\* the row handlePaymentFailure writes at time t
PaymentFailureUpdate_pastDue(t) ==
  [grace_period_until |-> calculatePeriodEnd(t, GracePeriodDays),
   status |-> "past_due"]

PaymentFailureUpdate(t) ==
  [grace_period_until |-> calculatePeriodEnd(t, GracePeriodDays)]

\* handlePaymentFailure(subscriptionId, paymentData)
handlePaymentFailure(subscriptionId, paymentData, fault) ==
  LET after == IF subscriptionId # "" /\ fault = "ok"
                 THEN UpdateSubscription(subs, subscriptionId,
                                         PaymentFailureUpdate(now))
                 ELSE subs
      subscription == SubscriptionBy(after, subscriptionId)
  IN  /\ subs' = after
      \* logSubscriptionEvent(tenant_id, 'payment_failed', ...): a ledger row
      \* without event_id
      /\ IF subscriptionId # "" /\ fault # "throw" /\ subscription.exists
           THEN ledger' = Append(ledger,
                  EventRow("", "payment_failed", subscription.tenant_id,
                           paymentData))
           ELSE UNCHANGED ledger
      /\ UNCHANGED history

\* handleSubscriptionCanceled(subscriptionId, subscriptionData)
handleSubscriptionCanceled_statusOnly(subscriptionId, subscriptionData, fault) ==
  /\ subs' = IF subscriptionId # "" /\ fault = "ok"
               THEN UpdateSubscription(subs, subscriptionId,
                      [status |-> "canceled"])
               ELSE subs
  /\ UNCHANGED <<ledger, history>>

handleSubscriptionCanceled(subscriptionId, subscriptionData, fault) ==
  /\ subs' = IF subscriptionId # "" /\ fault = "ok"
               THEN UpdateSubscription(subs, subscriptionId,
                      [status |-> "canceled", canceled_at |-> now])
               ELSE subs
  /\ UNCHANGED <<ledger, history>>

\* the `updates` object handleSubscriptionUpdated builds from the payload;
\* an undefined value is dropped when the update is serialised
SubscriptionUpdates(subscriptionData) ==
  (IF subscriptionData.status # ""
     THEN [status |-> subscriptionData.status] ELSE <<>>)
  @@ (IF subscriptionData.current_period_end # NULL
        THEN [current_period_end |-> subscriptionData.current_period_end]
        ELSE <<>>)
  @@ (IF subscriptionData.cancel_at_period_end = "false"
        THEN [canceled_at |-> NULL]
      ELSE IF subscriptionData.cancel_at_period_end = "true"
              /\ subscriptionData.current_period_end # NULL
        THEN [canceled_at |-> subscriptionData.current_period_end]
      ELSE <<>>)

\* handleSubscriptionUpdated(subscriptionId, subscriptionData)
handleSubscriptionUpdated(subscriptionId, subscriptionData, fault) ==
  /\ subs' = IF subscriptionId # "" /\ fault = "ok"
               THEN UpdateSubscription(subs, subscriptionId,
                                       SubscriptionUpdates(subscriptionData))
               ELSE subs
  /\ UNCHANGED <<ledger, history>>

\* handleSubscriptionCreated and the default branch: nothing is written
NoHandler_cancels ==
  /\ subs' = [t \in Tenants |->
               IF subs[t].exists THEN [subs[t] EXCEPT !.status = "canceled"]
               ELSE subs[t]]
  /\ UNCHANGED <<ledger, history>>

NoHandler == UNCHANGED <<subs, ledger, history>>

\* processWebhookEvent(eventType, payload, tenantId): the switch on eventType
processWebhookEvent(eventType, payload, fault) ==
  LET subscriptionId == SubscriptionIdOf(payload)
  IN  CASE eventType \in {"payment.succeeded", "invoice.paid"} ->
             handlePaymentSuccess(subscriptionId, payload, fault)
        [] eventType \in {"payment.failed", "invoice.payment_failed"} ->
             handlePaymentFailure(subscriptionId, payload, fault)
        [] eventType \in {"subscription.cancelled", "customer.subscription.deleted"} ->
             handleSubscriptionCanceled(subscriptionId, payload, fault)
        [] eventType \in {"subscription.updated", "customer.subscription.updated"} ->
             handleSubscriptionUpdated(subscriptionId, payload, fault)
        [] OTHER -> NoHandler

\* handleWebhook after the ledger insert: process the event, report processed
Dispatch_rethrows(d, fault) ==
  /\ deliv[d].pc = "dispatch"
  /\ processWebhookEvent(deliv[d].eventType, deliv[d].payload, fault)
  /\ dispatched' = Append(dispatched, <<d, deliv[d].eventId>>)
  /\ deliv' = [deliv EXCEPT ![d] =
         Answered([deliv[d] EXCEPT !.fault = fault],
                  IF fault = "throw" THEN "handler failed" ELSE "processed")]
  /\ decision' = NoDecision
  /\ UNCHANGED <<now, plans, usage, started, meter, gateway>>

Dispatch(d, fault) ==
  /\ deliv[d].pc = "dispatch"
  /\ processWebhookEvent(deliv[d].eventType, deliv[d].payload, fault)
  /\ dispatched' = Append(dispatched, <<d, deliv[d].eventId>>)
  /\ deliv' = [deliv EXCEPT ![d] =
         Answered([deliv[d] EXCEPT !.fault = fault], "processed")]
  /\ decision' = NoDecision
  /\ UNCHANGED <<now, plans, usage, started, meter, gateway>>

\* a day passes
Tick ==
  /\ now < MaxTime
  /\ now' = now + 1
  /\ decision' = NoDecision
  /\ UNCHANGED <<store, hooks, meter, gateway>>

\* -------------------------------------------------- POST /cancel-subscription
\* rows the route has logged so far
CancelRows == {i \in DOMAIN ledger : ledger[i].event_type = "subscription_canceled"}

\* POST /cancel-subscription for req.tenantId = tenant with body
\* {subscription_id}: 400 when the id is missing, otherwise the row of that
\* tenant and id is set to canceled; a store error on the update is thrown
\* (500), and the cancellation is then logged in subscription_events.
\* fault, logFault: outcomes of the update and of the log insert.
CancelSubscription(tenant, subscription_id, fault, logFault) ==
  /\ Cardinality(CancelRows) < MaxCancels
  /\ IF subscription_id = "" \/ fault # "ok"
       THEN UNCHANGED <<subs, ledger>>
       ELSE /\ subs' = [subs EXCEPT ![tenant] =
                  IF @.exists /\ @.dodo_subscription_id = subscription_id
                    THEN [status |-> "canceled", canceled_at |-> now] @@ @
                    ELSE @]
            /\ ledger' = IF logFault = "ok"
                           THEN Append(ledger,
                                  EventRow("", "subscription_canceled", tenant,
                                    [subscription_id |-> subscription_id,
                                     canceled_at |-> now]))
                           ELSE ledger
  /\ decision' = NoDecision
  /\ UNCHANGED <<now, plans, usage, history, hooks, meter, gateway>>

\* ------------------------------------------------------- the specification
\* createSubscription: calculatePeriodEnd(body.trial_period_days || 15)
DefaultTrialDays == 15

SubscriptionRow(tenant, subscriptionId, status) ==
  [exists |-> TRUE, tenant_id |-> tenant, plan_id |-> "starter",
   status |-> status, dodo_subscription_id |-> subscriptionId,
   current_period_start |-> StartDay,
   current_period_end |-> calculatePeriodEnd(StartDay, DefaultTrialDays),
   grace_period_until |-> NULL, canceled_at |-> NULL]

\* the events the provider delivers
Events ==
  {Event("evt_1", "", "payment.failed", "sub_1", "t1"),
   Event("evt_2", "", "payment.succeeded", "sub_1", "t1"),
   Event("evt_3", "", "subscription.cancelled", "sub_2", "t2"),
   [Event("evt_4", "", "subscription.updated", "sub_1", "t1")
      EXCEPT !.status = "past_due"]}

Secret == "whsec"
\* the headers a delivery may carry: none, the sender's signature with or
\* without the sha256= prefix, a signature made with another key, and the
\* sender's signature followed by characters that are not hex digits
Headers(p) ==
  {NoHeader, Header(FALSE, Hmac(Secret, p), ""), Header(TRUE, Hmac(Secret, p), ""),
   Header(FALSE, Hmac("other", p), ""), Header(FALSE, Hmac(Secret, p), "zz")}

\* each tenant subscribed to the starter plan; nothing delivered yet
Init ==
  /\ now = StartDay
  /\ plans = [p \in PlanIds |->
                [max_reports_per_month |-> MaxLimit, max_clients |-> NULL,
                 max_data_sources |-> NULL]]
  /\ subs = [t \in Tenants |->
               IF t = "t1" THEN SubscriptionRow("t1", "sub_1", "active")
               ELSE SubscriptionRow("t2", "sub_2", "active")]
  /\ usage = [k \in Tenants \X Months |-> NoRow]
  /\ decision = NoDecision
  /\ ledger = <<>> /\ history = <<>>
  /\ deliv = [d \in {1} |-> IdleSlot]
  /\ started = 0 /\ dispatched = <<>>
  /\ reqs = <<>> /\ credited = NothingCredited
  /\ tenants = NoCustomers /\ call = NoCall /\ op = NoOp

\* the secret is configured; the provider signs its deliveries, and a
\* delivery may also arrive unsigned
WebhookReceived ==
  \E d \in DOMAIN deliv, p \in Events :
    \E header \in {NoHeader, Header(TRUE, Hmac(Secret, p), "")} :
      Receive(d, p, Secret, header)

DuplicateChecked == \E d \in DOMAIN deliv : Lookup(d)

EventStored == \E d \in DOMAIN deliv, fault \in {"ok", "error"} : Insert(d, fault)

EventProcessed == \E d \in DOMAIN deliv, fault \in Faults : Dispatch(d, fault)

\* the gate is asked about reports; its reads answer or throw
GateCalled ==
  \E t \in Tenants, fp \in {<<"ok", "ok">>, <<"throw", "ok">>} :
    CallCheckUsageLimits(t, "reports", fp)

Next ==
  \/ WebhookReceived
  \/ DuplicateChecked
  \/ EventStored
  \/ EventProcessed
  \/ GateCalled
  \/ Tick

Spec == Init /\ [][Next]_vars

\* ------------------------------------------- concurrent webhook deliveries
\* two deliveries are handled at once; their store calls interleave
InitConcurrent ==
  /\ now = StartDay
  /\ plans = [p \in PlanIds |->
                [max_reports_per_month |-> MaxLimit, max_clients |-> NULL,
                 max_data_sources |-> NULL]]
  /\ subs = [t \in Tenants |->
               IF t = "t1" THEN SubscriptionRow("t1", "sub_1", "active")
               ELSE SubscriptionRow("t2", "sub_2", "active")]
  /\ usage = [k \in Tenants \X Months |-> NoRow]
  /\ decision = NoDecision
  /\ ledger = <<>> /\ history = <<>>
  /\ deliv = [d \in {1, 2} |-> IdleSlot]
  /\ started = 0 /\ dispatched = <<>>
  /\ reqs = <<>> /\ credited = NothingCredited
  /\ tenants = NoCustomers /\ call = NoCall /\ op = NoOp

RetriedEvents ==
  {Event("evt_1", "", "payment.failed", "sub_1", "t1"),
   Event("evt_2", "", "payment.succeeded", "sub_1", "t1")}

ConcurrentReceived ==
  \E d \in DOMAIN deliv, p \in RetriedEvents :
    Receive(d, p, Secret, Header(TRUE, Hmac(Secret, p), ""))

NextConcurrent ==
  \/ ConcurrentReceived
  \/ DuplicateChecked
  \/ EventStored
  \/ EventProcessed

SpecConcurrent == InitConcurrent /\ [][NextConcurrent]_vars

\* --------------------------------------------------------- webhook claims
DispatchesOf(id) == {i \in DOMAIN dispatched : dispatched[i][2] = id}

\* C1 (as claimed): when two deliveries carrying the same event id have both
\* been handled (each ending as processed or as a duplicate), exactly one
\* subscription_events row carries that event id and exactly one of them was
\* dispatched to processWebhookEvent.
C1_DedupUnderConcurrency ==
  \A d1, d2 \in DOMAIN deliv :
    (/\ d1 # d2
     /\ deliv[d1].pc = "done" /\ deliv[d2].pc = "done"
     /\ deliv[d1].eventId # "" /\ deliv[d1].eventId = deliv[d2].eventId
     /\ deliv[d1].result \in {"processed", "duplicate"}
     /\ deliv[d2].result \in {"processed", "duplicate"})
    => /\ Cardinality(RowsWithEventId(deliv[d1].eventId)) = 1
       /\ Cardinality(DispatchesOf(deliv[d1].eventId)) = 1

\* delivery d carries an event that an earlier delivery stored in the ledger
\* (same event id, same payload) and is about to make its duplicate check
Redelivered(d) ==
  /\ deliv[d].pc = "lookup"
  /\ \E i \in DOMAIN ledger :
       /\ ledger[i].event_id = deliv[d].eventId
       /\ ledger[i].metadata = deliv[d].payload

C6_AccessEndsAfterGrace ==
  (/\ ServiceSawRow
   /\ decision.usageFault = "ok"
   /\ decision.sub.grace_period_until # NULL
   /\ decision.at > decision.sub.grace_period_until)
  => ~decision.result.allowed

\* ------------------------------------------------------------ usage ledger
\* usageType === 'reports' ? 'reports_sent' : usageType === 'clients' ?
\* 'client_count' : 'data_sources_connected'
ColumnOf(usageType) ==
  IF usageType = "reports" THEN "reports_sent"
  ELSE IF usageType = "clients" THEN "client_count"
  ELSE "data_sources_connected"

\* a tenant_usage row inserted with one counter given, the others at their default
NewUsageRow(column, value) ==
  [[exists |-> TRUE] @@ ZeroUsage EXCEPT ![column] = value]

\* the SQL function increment_usage(p_tenant_id, p_month, p_column_name,
\* p_increment_amount): INSERT ... ON CONFLICT (tenant_id, month) DO UPDATE
\* SET col = tenant_usage.col + EXCLUDED.col, in one statement
increment_usage(table, tenant, month, column, amount) ==
  [table EXCEPT ![<<tenant, month>>] =
     IF @.exists THEN [@ EXCEPT ![column] = @ + amount]
     ELSE NewUsageRow(column, amount)]

\* upsert({tenant_id, month, [column]: value}, {onConflict: 'tenant_id,month'})
UpsertUsage(table, tenant, month, column, value) ==
  [table EXCEPT ![<<tenant, month>>] =
     IF @.exists THEN [@ EXCEPT ![column] = value]
     ELSE NewUsageRow(column, value)]

Credit(tenant, month, column, amount) ==
  [credited EXCEPT ![<<tenant, month>>][column] = @ + amount]

Request(pc, kind, tenant, column, amount, seen, faulted) ==
  [pc |-> pc, kind |-> kind, tenant |-> tenant, column |-> column,
   amount |-> amount, seen |-> seen, faulted |-> faulted]

\* incrementUsage(tenantId, usageType, amount) of the function middleware, up
\* to the answer of its increment_usage RPC
FnIncrementUsage(tenant, usageType, amount, fault) ==
  LET column == ColumnOf(usageType)
      month == CurrentMonth(now)
  IN  /\ Len(reqs) < MaxRequests
      /\ IF fault = "ok"
           THEN /\ usage' = increment_usage(usage, tenant, month, column, amount)
                /\ credited' = Credit(tenant, month, column, amount)
                /\ reqs' = Append(reqs, Request("done", "incrementUsage", tenant,
                                                column, amount, NoRow, FALSE))
           ELSE /\ UNCHANGED <<usage, credited>>
                /\ reqs' = Append(reqs,
                     Request(IF fault = "error" THEN "fallback" ELSE "done",
                             "incrementUsage", tenant, column, amount, NoRow,
                             TRUE))
      /\ decision' = NoDecision
      /\ UNCHANGED <<now, plans, subs, ledger, history, hooks, gateway>>

\* the fallback of incrementUsage: select the month's row
FnFallbackSelect(r) ==
  /\ reqs[r].pc = "fallback"
  /\ reqs' = [reqs EXCEPT ![r].pc = "fallback_write",
                          ![r].seen = usage[<<reqs[r].tenant, CurrentMonth(now)>>]]
  /\ decision' = NoDecision
  /\ UNCHANGED <<now, store, hooks, credited, gateway>>

\* the fallback of incrementUsage: when a row was found, an update whose value
\* is a query builder, which the store rejects; otherwise an insert of a new
\* row, rejected when the row exists by now
FnFallbackWrite(r) ==
  LET k == <<reqs[r].tenant, CurrentMonth(now)>>
  IN  /\ reqs[r].pc = "fallback_write"
      /\ usage' = IF ~reqs[r].seen.exists /\ ~usage[k].exists
                    THEN [usage EXCEPT ![k] =
                            NewUsageRow(reqs[r].column, reqs[r].amount)]
                    ELSE usage
      /\ reqs' = [reqs EXCEPT ![r].pc = "done"]
      /\ decision' = NoDecision
      /\ UNCHANGED <<now, plans, subs, ledger, history, hooks, credited, gateway>>

\* a request enters UsageTrackingMiddleware.checkUsage, which leaves the usage
\* it read in req.tenantUsage when it lets the request pass
MwEnter(tenant, route, fp) ==
  LET res == MwCheckUsage(tenant, Joined(subs[tenant]), fp[1],
                          usage[<<tenant, CurrentMonth(now)>>], fp[2], now, route)
      column == IF route = "/api/reporter/generate" THEN "reports_sent"
                ELSE IF route = "/api/clients/create" THEN "client_count"
                ELSE ""
  IN  /\ Len(reqs) < MaxRequests
      /\ decision' = Called("UsageTrackingMiddleware.checkUsage", tenant, route,
                            fp, res)
      /\ reqs' = Append(reqs,
           IF res.allowed /\ res.info.exists /\ column # ""
             THEN Request("increment", "middleware", tenant, column, 1,
                          [exists |-> TRUE] @@ res.info.currentUsage, FALSE)
             ELSE Request("done", "middleware", tenant, column, 0, NoRow, FALSE))
      /\ UNCHANGED <<now, store, hooks, credited, gateway>>

\* UsageTrackingMiddleware.incrementUsage: upsert the counter read by
\* checkUsage plus one
MwIncrementUsage(r, fault) ==
  LET tenant == reqs[r].tenant
      month == CurrentMonth(now)
      column == reqs[r].column
  IN  /\ reqs[r].pc = "increment"
      /\ IF fault = "ok"
           THEN /\ usage' = UpsertUsage(usage, tenant, month, column,
                                        reqs[r].seen[column] + 1)
                /\ credited' = Credit(tenant, month, column, 1)
                /\ reqs' = [reqs EXCEPT ![r].pc = "done"]
           ELSE /\ UNCHANGED <<usage, credited>>
                /\ reqs' = [reqs EXCEPT ![r].pc = "done", ![r].faulted = TRUE]
      /\ decision' = NoDecision
      /\ UNCHANGED <<now, plans, subs, ledger, history, hooks, gateway>>

\* each tenant subscribed; the month is the first or the second of the model
InitUsage ==
  /\ now \in {StartDay, MaxTime}
  /\ \E lim \in {NULL, MaxLimit + 1} :
       plans = [p \in PlanIds |->
                  [max_reports_per_month |-> lim, max_clients |-> NULL,
                   max_data_sources |-> NULL]]
  /\ subs = [t \in Tenants |->
               IF t = "t1" THEN SubscriptionRow("t1", "sub_1", "active")
               ELSE SubscriptionRow("t2", "sub_2", "active")]
  /\ usage = [k \in Tenants \X Months |-> NoRow]
  /\ decision = NoDecision
  /\ ledger = <<>> /\ history = <<>>
  /\ deliv = <<>> /\ started = 0 /\ dispatched = <<>>
  /\ reqs = <<>> /\ credited = NothingCredited
  /\ tenants = NoCustomers /\ call = NoCall /\ op = NoOp

\* middleware/usage-limits.js exists in two versions, the class
\* UsageTrackingMiddleware and the functions checkUsage / incrementUsage; a
\* running server loads one of them, so the requests of one behaviour all go
\* through the same version
Runs(kind) == \A r \in DOMAIN reqs : reqs[r].kind = kind

IncrementCalled ==
  /\ Runs("incrementUsage")
  /\ \E t \in Tenants, usageType \in {"reports", "clients"}, fault \in Faults :
       FnIncrementUsage(t, usageType, 1, fault)

FallbackSelected == \E r \in DOMAIN reqs : FnFallbackSelect(r)

FallbackWritten == \E r \in DOMAIN reqs : FnFallbackWrite(r)

MiddlewareEntered ==
  /\ Runs("middleware")
  /\ \E t \in Tenants, route \in Routes : MwEnter(t, route, <<"ok", "ok">>)

MiddlewareIncremented ==
  \E r \in DOMAIN reqs, fault \in {"ok", "error"} : MwIncrementUsage(r, fault)

NextUsage ==
  \/ IncrementCalled
  \/ FallbackSelected
  \/ FallbackWritten
  \/ MiddlewareEntered
  \/ MiddlewareIncremented

SpecUsage == InitUsage /\ [][NextUsage]_vars

\* ------------------------------------------------------------ usage claims
AllRequestsDone == \A r \in DOMAIN reqs : reqs[r].pc = "done"
NoRequestFaulted == \A r \in DOMAIN reqs : ~reqs[r].faulted

Counter(k, column) == IF usage[k].exists THEN usage[k][column] ELSE 0

\* C3 (as claimed): once every increment call made so far has completed, none
\* of them having met a store fault, each counter of each (tenant, month)
\* equals its initial value (0) plus the number of calls that incremented it.
C3_NoLostIncrement ==
  (AllRequestsDone /\ NoRequestFaulted) =>
    \A k \in Tenants \X Months :
      \A column \in {"reports_sent", "client_count", "data_sources_connected"} :
        Counter(k, column) = credited[k][column]

\* ------------------------------------------ requests made by tenants' users
\* a tenant asks to cancel; the id in the body is its own subscription's,
\* another tenant's, or missing
CancelRequested ==
  \E t \in Tenants, id \in {"", "sub_1", "sub_2"}, fault \in {"ok", "error"},
     logFault \in {"ok", "error"} :
    CancelSubscription(t, id, fault, logFault)

\* webhooks are delivered while tenants' users use the payment routes
NextAccount ==
  \/ ConcurrentReceived
  \/ DuplicateChecked
  \/ EventStored
  \/ EventProcessed
  \/ CancelRequested

SpecAccount == Init /\ [][NextAccount]_vars

\* ------------------------------------------- state-machine transitions
\* the transitions the provider reports, each under its event types and with
\* the subscription id in each of the places processWebhookEvent looks for it
Transitions ==
  {Event("", "", "payment.succeeded", "sub_1", "t1"),
   Event("", "", "invoice.paid", "sub_1", "t1"),
   Event("", "", "payment.succeeded", "sub_9", "t1"),
   Event("", "", "payment.failed", "sub_1", "t1"),
   [Event("", "", "invoice.payment_failed", "", "t1")
      EXCEPT !.subscription_id = "sub_1"],
   Event("", "", "subscription.cancelled", "sub_1", "t1"),
   [Event("", "", "customer.subscription.deleted", "", "t1")
      EXCEPT !.subscription = "sub_1"],
   [Event("", "", "subscription.updated", "sub_1", "t1")
      EXCEPT !.object_status = "past_due",
             !.object_current_period_end = MaxTime,
             !.object_cancel_at_period_end = "true"],
   [Event("", "", "subscription.updated", "sub_1", "t1")
      EXCEPT !.status = "past_due", !.current_period_end = MaxTime,
             !.cancel_at_period_end = "true"],
   [Event("", "", "customer.subscription.updated", "sub_1", "t1")
      EXCEPT !.cancel_at_period_end = "false"],
   Event("", "", "subscription.created", "sub_1", "t1"),
   Event("", "", "customer.created", "sub_1", "t1"),
   Event("", "", "payment.failed", "", "t1"),
   Event("", "", "", "sub_1", "t1")}

\* each transition may be reported by either of two events
TransitionEvents ==
  {[e EXCEPT !.id = id] : e \in Transitions, id \in {"evt_a", "evt_b"}}

\* t1's subscription is in any status, in or out of a grace period, or t1
\* has none; t2 is subscribed
InitTransitions ==
  /\ now = StartDay
  /\ plans = [p \in PlanIds |->
                [max_reports_per_month |-> MaxLimit, max_clients |-> NULL,
                 max_data_sources |-> NULL]]
  /\ \E row \in {NoRow} \cup
                 {[SubscriptionRow("t1", "sub_1", st)
                     EXCEPT !.grace_period_until = g,
                            !.canceled_at = IF st = "canceled" THEN StartDay
                                            ELSE NULL] :
                    st \in Statuses, g \in {NULL, StartDay + 1}} :
       subs = [t \in Tenants |->
                 IF t = "t1" THEN row ELSE SubscriptionRow("t2", "sub_2", "active")]
  /\ usage = [k \in Tenants \X Months |-> NoRow]
  /\ decision = NoDecision
  /\ ledger = <<>> /\ history = <<>>
  /\ deliv = [d \in {1, 2} |-> IdleSlot]
  /\ started = 0 /\ dispatched = <<>>
  /\ reqs = <<>> /\ credited = NothingCredited
  /\ tenants = NoCustomers /\ call = NoCall /\ op = NoOp

\* handleWebhook up to the call of processWebhookEvent for an event that
\* passed the signature check, is not a duplicate, and is stored; deliveries
\* are handled one after the other
Accept(d, p) ==
  /\ deliv[d].pc = "idle"
  /\ \A e \in DOMAIN deliv : e < d => deliv[e].pc = "done"
  /\ ~IsDuplicate(EventIdOf(p, started + 1))
  /\ started' = started + 1
  /\ ledger' = Append(ledger,
                  EventRow(EventIdOf(p, started + 1), EventTypeOf(p), p.tenant, p))
  /\ deliv' = [deliv EXCEPT ![d] =
         [IdleSlot EXCEPT !.pc = "dispatch", !.payload = p,
            !.eventId = EventIdOf(p, started + 1),
            !.eventType = EventTypeOf(p), !.tenantId = p.tenant]]
  /\ decision' = NoDecision
  /\ UNCHANGED <<now, plans, subs, usage, history, dispatched, meter, gateway>>

EventAccepted == \E d \in DOMAIN deliv, p \in TransitionEvents : Accept(d, p)

NextTransitions ==
  \/ EventAccepted
  \/ EventProcessed

SpecTransitions == InitTransitions /\ [][NextTransitions]_vars

\* ---------------------------------------------------- state-machine claims
\* the step dispatches delivery d to a state-machine handler
Dispatching(d) == deliv[d].pc = "dispatch" /\ deliv'[d].pc = "done"

\* C11 (as claimed): a subscription row's status changes only in a step that
\* dispatches a webhook event to a state-machine handler (rows are created
\* by createSubscription before the behaviour starts); no request made by a
\* user changes it.
C11_StatusOnlyByStateMachine ==
  [][\A t \in Tenants :
       (subs[t].exists /\ subs'[t].exists /\ subs'[t].status # subs[t].status)
       => \E d \in DOMAIN deliv : Dispatching(d)]_vars

\* the subscription id the event of delivery d names
Named(d) == SubscriptionIdOf(deliv[d].payload)

\* the step dispatches delivery d, whose event type is one of `types`, and
\* the handler's store write succeeds
Applying(d, types) ==
  /\ Dispatching(d)
  /\ deliv[d].eventType \in types
  /\ deliv'[d].fault = "ok"

\* the row is the one keyed by external subscription id S
KeyedBy(row, S) == row.exists /\ row.dodo_subscription_id = S

\* C12: applying a payment.succeeded or invoice.paid event that names
\* subscription S leaves the row keyed by S with status active and
\* grace_period_until null, whatever its status and grace period were.
C12_PaymentSuccessActivates ==
  [][\A d \in DOMAIN deliv, t \in Tenants :
       (Applying(d, {"payment.succeeded", "invoice.paid"})
        /\ KeyedBy(subs[t], Named(d)))
       => /\ subs'[t].status = "active"
          /\ subs'[t].grace_period_until = NULL]_vars

\* a canceled subscription (canceled_at still set) in a grace period was
\* made active with the grace period cleared by an invoice.paid event
C12_Witness ==
  \E d \in DOMAIN deliv :
    /\ deliv[d].pc = "done" /\ deliv[d].fault = "ok"
    /\ deliv[d].eventType = "invoice.paid"
    /\ Len(dispatched) = 1
    /\ subs["t1"].exists /\ subs["t1"].canceled_at # NULL
    /\ subs["t1"].status = "active"
    /\ subs["t1"].grace_period_until = NULL
    /\ Len(history) = 1

\* C13: applying a payment.failed event that names subscription S sets
\* grace_period_until of the row keyed by S to now + 7 days and leaves its
\* status, plan, period bounds and canceled_at as they were.
C13_PaymentFailureSetsGraceOnly ==
  [][\A d \in DOMAIN deliv, t \in Tenants :
       (Applying(d, {"payment.failed", "invoice.payment_failed"})
        /\ KeyedBy(subs[t], Named(d)))
       => /\ subs'[t].grace_period_until = now + 7
          /\ subs'[t].status = subs[t].status
          /\ subs'[t].plan_id = subs[t].plan_id
          /\ subs'[t].current_period_start = subs[t].current_period_start
          /\ subs'[t].current_period_end = subs[t].current_period_end
          /\ subs'[t].canceled_at = subs[t].canceled_at]_vars

\* a trialing subscription got its grace period from a payment.failed event
\* and is still trialing
C13_Witness ==
  \E d \in DOMAIN deliv :
    /\ deliv[d].pc = "done" /\ deliv[d].fault = "ok"
    /\ deliv[d].eventType = "payment.failed"
    /\ Len(dispatched) = 1
    /\ subs["t1"].exists /\ subs["t1"].status = "trialing"
    /\ subs["t1"].grace_period_until = now + 7

\* C14: applying a subscription.cancelled event that names subscription S
\* sets the row keyed by S to status canceled with canceled_at = now, from
\* any status.
C14_CancelledSetsCanceled ==
  [][\A d \in DOMAIN deliv, t \in Tenants :
       (Applying(d, {"subscription.cancelled", "customer.subscription.deleted"})
        /\ KeyedBy(subs[t], Named(d)))
       => /\ subs'[t].status = "canceled"
          /\ subs'[t].canceled_at = now]_vars

\* a subscription in a grace period was canceled by a subscription.cancelled
\* event
C14_Witness ==
  \E d \in DOMAIN deliv :
    /\ deliv[d].pc = "done" /\ deliv[d].fault = "ok"
    /\ deliv[d].eventType = "subscription.cancelled"
    /\ Len(dispatched) = 1
    /\ subs["t1"].exists /\ subs["t1"].status = "canceled"
    /\ subs["t1"].canceled_at = now
    /\ subs["t1"].grace_period_until # NULL

\* the event of delivery d has the body shape {id, type, data, metadata}:
\* what it reports about the subscription is in data.object
StandardShape(p) ==
  /\ p.id # "" /\ p.type # "" /\ p.object_id # ""
  /\ p.status = "" /\ p.current_period_end = NULL
  /\ p.cancel_at_period_end = "undefined"

\* C15 (as claimed): applying a subscription.updated event of the shape
\* {id, type, data, metadata} that names subscription S merges what the
\* event carries into the row keyed by S: status and current_period_end take
\* the event's values, canceled_at is current_period_end when the
\* cancel_at_period_end flag is set and null when it is cleared, and what the
\* event does not carry stays as it was.
C15_UpdateMerged ==
  [][\A d \in DOMAIN deliv, t \in Tenants :
       (Applying(d, {"subscription.updated", "customer.subscription.updated"})
        /\ StandardShape(deliv[d].payload)
        /\ KeyedBy(subs[t], Named(d)))
       => LET p == deliv[d].payload
          IN  /\ subs'[t].status =
                   IF p.object_status # "" THEN p.object_status
                   ELSE subs[t].status
              /\ subs'[t].current_period_end =
                   IF p.object_current_period_end # NULL
                     THEN p.object_current_period_end
                   ELSE subs[t].current_period_end
              /\ subs'[t].canceled_at =
                   IF p.object_cancel_at_period_end = "true"
                     THEN p.object_current_period_end
                   ELSE IF p.object_cancel_at_period_end = "false" THEN NULL
                   ELSE subs[t].canceled_at]_vars

\* delivery d carries the transition the delivery before it carried, under
\* another event id, and that one was applied
Reapplied(d) ==
  /\ d > 1
  /\ deliv[d - 1].pc = "done" /\ deliv[d - 1].fault = "ok"
  /\ deliv[d - 1].eventId # deliv[d].eventId
  /\ [deliv[d - 1].payload EXCEPT !.id = ""] = [deliv[d].payload EXCEPT !.id = ""]

\* C16 (as claimed): applying a transition a second time in a row, as an
\* event with another event id, leaves what is stored (subscription rows,
\* upgrade history, subscription events logged by the handlers) as the first
\* application left it.
C16_TransitionsIdempotent ==
  [][\A d \in DOMAIN deliv :
       (Dispatching(d) /\ deliv'[d].fault = "ok" /\ Reapplied(d))
       => /\ subs' = subs
          /\ history' = history
          /\ ledger' = ledger]_vars

\* ------------------------------------------------- signed and unsigned requests
\* the requests POST /webhook may get: a body, the configured secret ("" when
\* DODO_WEBHOOK_SIGNING_SECRET is unset) and the signature header
Requests ==
  LET p == Event("evt_1", "", "payment.failed", "sub_1", "t1")
  IN  {<<p, "", header>> : header \in {NoHeader, Header(FALSE, Hmac(Secret, p), "")}}
      \cup {<<p, Secret, header>> : header \in Headers(p)}

\* one slot per request, so that a delivery is known by what was sent
InitSignature ==
  /\ now = StartDay
  /\ plans = [p \in PlanIds |->
                [max_reports_per_month |-> MaxLimit, max_clients |-> NULL,
                 max_data_sources |-> NULL]]
  /\ subs = [t \in Tenants |->
               IF t = "t1" THEN SubscriptionRow("t1", "sub_1", "active")
               ELSE SubscriptionRow("t2", "sub_2", "active")]
  /\ usage = [k \in Tenants \X Months |-> NoRow]
  /\ decision = NoDecision
  /\ ledger = <<>> /\ history = <<>>
  /\ deliv = [d \in Requests |-> IdleSlot]
  /\ started = 0 /\ dispatched = <<>>
  /\ reqs = <<>> /\ credited = NothingCredited
  /\ tenants = NoCustomers /\ call = NoCall /\ op = NoOp

\* a request arrives once the one before it has been answered
RequestReceived ==
  \E d \in DOMAIN deliv :
    /\ deliv[d].pc = "idle"
    /\ \A e \in DOMAIN deliv : deliv[e].pc \in {"idle", "done"}
    /\ Receive(d, d[1], d[2], d[3])

NextSignature ==
  \/ RequestReceived
  \/ DuplicateChecked
  \/ EventStored
  \/ EventProcessed

SpecSignature == InitSignature /\ [][NextSignature]_vars

\* -------------------------------------------------------- ingestor claims
\* C17: whenever a delivery is at the point of being dispatched to a handler,
\* and in every step that dispatches it, the subscription_events row with its
\* event id is already stored; and a delivery whose row could not be
\* inserted ends without being dispatched and without any handler's write.
C17_StoredBeforeDispatch ==
  [][\A d \in DOMAIN deliv :
       /\ deliv'[d].pc = "dispatch"
            => \E i \in DOMAIN ledger' : ledger'[i].event_id = deliv'[d].eventId
       /\ Dispatching(d) => IsDuplicate(deliv[d].eventId)
       /\ (deliv[d].pc = "insert" /\ deliv'[d].pc = "done")
            => /\ deliv'[d].result = "Failed to store webhook event"
               /\ dispatched' = dispatched
               /\ <<subs, history, ledger>>' = <<subs, history, ledger>>]_vars

\* one delivery was stored and dispatched, and a later one, whose row the
\* store refused, ended without a dispatch
C17_Witness ==
  \E d \in DOMAIN deliv :
    /\ deliv[d].pc = "done"
    /\ deliv[d].result = "Failed to store webhook event"
    /\ started = 2 /\ Len(dispatched) = 1
    /\ IsDuplicate(dispatched[1][2])
    /\ ~IsDuplicate(deliv[d].eventId)

\* request d arrives in this step
Arriving(d) == deliv[d].pc = "idle" /\ deliv'[d].pc # "idle"

\* the request is rejected: handleWebhook throws before anything is stored
\* or dispatched
Rejected(d) ==
  /\ deliv'[d].pc = "done"
  /\ deliv'[d].result \in {"Missing webhook signature header",
                            "Invalid webhook signature"}
  /\ store' = store
  /\ dispatched' = dispatched

\* the header is the hex HMAC-SHA256 of the body under the secret, with or
\* without the sha256= prefix, and nothing else
EqualsHmac(header, body, secret) ==
  header.hex = Hmac(secret, body) /\ header.tail = ""

C19_BadSignatureErrorStatus ==
  \A d \in DOMAIN deliv :
    deliv[d].result \in {"Missing webhook signature header",
                         "Invalid webhook signature"}
    => deliv[d].response.status >= 400

RecognisedTypes ==
  {"payment.succeeded", "invoice.paid", "payment.failed",
   "invoice.payment_failed", "subscription.cancelled",
   "customer.subscription.deleted", "subscription.updated",
   "customer.subscription.updated", "subscription.created"}

\* C21: dispatching an event that passed verification and whose type is not
\* one processWebhookEvent recognises changes no subscription row and no usage
\* row; the event is in the ledger and the delivery is acknowledged as
\* processed.
C21_UnknownTypeOnlyRecorded ==
  [][\A d \in DOMAIN deliv :
       (Dispatching(d) /\ deliv[d].eventType \notin RecognisedTypes)
       => /\ subs' = subs /\ usage' = usage
          /\ \E i \in DOMAIN ledger' : ledger'[i].event_id = deliv[d].eventId
          /\ deliv'[d].result = "processed"
          /\ deliv'[d].response.sent /\ deliv'[d].response.status = 200
          /\ deliv'[d].response.success]_vars

C21_Witness ==
  \E d \in DOMAIN deliv :
    /\ deliv[d].pc = "done" /\ deliv[d].eventType = "customer.created"
    /\ deliv[d].result = "processed"
    /\ RowsWithEventId(deliv[d].eventId) # {}
    /\ subs["t1"].exists
\* ------------------------------------------------ provider endpoint resolver
MaxPaths == 2
MaxAttempts == 3
\* axiosRetry(instance, {retries: 3, ...})
AxiosRetries == 3
\* the candidate paths createCustomer passes, in the order it lists them
CandidatePaths ==
  <<"/v1/customers", "/api/v1/customers", "/customers", "/api/customers">>

\* what can come back for one HTTP request: a response with a status, a
\* network error (connection refused or reset), or the 10 s timeout
Response(status) == [kind |-> "response", status |-> status]
NetworkError == [kind |-> "network", status |-> 0]
Timeout == [kind |-> "timeout", status |-> 0]
HttpOutcomes == {Response(200), Response(404), Response(500), NetworkError, Timeout}

\* the instance is created without validateStatus, so axios resolves the
\* promise for a 2xx response and rejects it for every other response
validateStatus(status) == status >= 200 /\ status < 300

\* retryCondition of axios-retry for the POST requests tryEndpoints sends:
\* isNetworkOrIdempotentRequestError holds for a network error other than a
\* timeout (POST is not idempotent); the second disjunct adds 5xx responses
retryCondition(o) ==
  \/ o.kind = "network"
  \/ (o.kind = "response" /\ o.status >= 500)

\* `let lastError = null` and the two places it is assigned
NoError == [kind |-> "null", status |-> 0, path |-> 0, attempt |-> 0]
ResponseError(o, path, attempt) ==
  [kind |-> "status", status |-> o.status, path |-> path, attempt |-> attempt]
CaughtError(o, path, attempt) ==
  [kind |-> IF o.kind = "response" THEN "rejected" ELSE o.kind,
   status |-> o.status, path |-> path, attempt |-> attempt]

\* the return statement after the loops reads lastError, which is declared
\* with let inside the body of the loop over the paths and is out of scope
\* there: evaluating it throws a ReferenceError and nothing is returned
Exhausted(c) ==
  [c EXCEPT !.pc = "thrown",
            !.result = [ok |-> FALSE, threw |-> "lastError is not defined",
                        error |-> NoError, endpointUsed |-> 0, status |-> 0]]

\* return { ok: true, data, endpointUsed: url, status }
Succeeded_ignored(c, o) ==
  IF c.path < Len(c.paths)
    THEN [c EXCEPT !.path = c.path + 1, !.attempt = 1, !.retries = 0,
                   !.lastError = NoError]
    ELSE Exhausted(c)

Succeeded(c, o) ==
  [c EXCEPT !.pc = "returned",
            !.result = [ok |-> TRUE, threw |-> "", error |-> NoError,
                        endpointUsed |-> c.path, status |-> o.status]]

\* the loop over the paths moves on: a fresh lastError for the next path, or
\* the end of the loop
NextPath(c) ==
  IF c.path < Len(c.paths)
    THEN [c EXCEPT !.path = c.path + 1, !.attempt = 1, !.retries = 0,
                   !.lastError = NoError]
    ELSE Exhausted(c)

\* attempt++ and the loop test attempt <= maxRetries
NextAttempt(c) ==
  IF c.attempt < c.maxRetries
    THEN [c EXCEPT !.attempt = c.attempt + 1, !.retries = 0]
    ELSE NextPath(c)

\* tryEndpoints(method, body, candidatePaths, maxRetries) up to its first
\* request
Started(paths, maxRetries) ==
  LET c == [pc |-> "request", paths |-> paths, maxRetries |-> maxRetries,
            path |-> 1, attempt |-> 1, retries |-> 0, lastError |-> NoError,
            sent |-> [i \in DOMAIN paths |-> 0],
            last |-> [path |-> 0, outcome |-> NoError],
            result |-> [ok |-> FALSE, threw |-> "", error |-> NoError,
                        endpointUsed |-> 0, status |-> 0]]
  IN  IF paths = <<>> THEN Exhausted(c) ELSE c

\* tryEndpoints from the answer `o` to the HTTP request in flight up to the
\* next request or the end of the call
Continued(c, o) ==
  LET counted == [c EXCEPT !.sent[c.path] = @ + 1,
                           !.last = [path |-> c.path, outcome |-> o]]
  IN  IF o.kind = "response" /\ validateStatus(o.status)
        \* await axiosInstance(config) resolved
        THEN IF o.status >= 200 /\ o.status < 300
               THEN Succeeded(counted, o)
               ELSE LET failed == [counted EXCEPT !.lastError =
                                     ResponseError(o, c.path, c.attempt)]
                    IN  IF o.status >= 400 /\ o.status < 500
                          THEN NextPath(failed)
                          ELSE NextAttempt(failed)
        ELSE IF retryCondition(o) /\ c.retries < AxiosRetries
               \* axios-retry sends the request again inside the same await
               THEN [counted EXCEPT !.retries = c.retries + 1]
               \* the promise is rejected: the catch block, then the backoff
               ELSE NextAttempt([counted EXCEPT !.lastError =
                                   CaughtError(o, c.path, c.attempt)])

Invoke(paths, maxRetries) ==
  /\ call.pc = "idle"
  /\ call' = Started(paths, maxRetries)
  /\ decision' = NoDecision
  /\ UNCHANGED <<now, store, hooks, meter, tenants, op>>

Respond(o) ==
  /\ call.pc = "request"
  /\ call' = Continued(call, o)
  /\ decision' = NoDecision
  /\ UNCHANGED <<now, store, hooks, meter, tenants, op>>

EndpointsTried ==
  \E n \in 0..MaxPaths, maxRetries \in 1..MaxAttempts :
    Invoke(SubSeq(CandidatePaths, 1, n), maxRetries)

RequestAnswered == \E o \in HttpOutcomes : Respond(o)

NextResolver ==
  \/ EndpointsTried
  \/ RequestAnswered

SpecResolver == Init /\ [][NextResolver]_vars
\* ------------------------------------------- customers and subscriptions
MaxCalls == 2

\* what the awaited tryEndpoints call gives its caller: the 2xx response of
\* the provider, whose body may carry an id in several places, or the error
\* thrown on exhaustion.  ids = <<id, customer_id or subscription_id,
\* data.id, data.customer_id>>, "" where the body has none.
ProviderAnswer(ids, status) ==
  [ok |-> TRUE, threw |-> "", ids |-> ids, status |-> status,
   current_period_end |-> NULL, endpointUsed |-> 1]
ProviderFailure ==
  [ok |-> FALSE, threw |-> Exhausted(Started(CandidatePaths, 1)).result.threw,
   ids |-> <<"", "", "", "">>, status |-> "", current_period_end |-> NULL,
   endpointUsed |-> 0]

\* how a call ended: "returned" a success, "refused" (createSubscription's
\* catch block: return { success: false, error, tenantId }) or "threw".
\* given: the dodoCustomerId argument; called: the provider was called; id:
\* the id found in the provider's response; stored: the local write went
\* through.
Ended(name, tenantId, given, called, id, stored, how, error) ==
  [name |-> name, n |-> op.n + 1, tenantId |-> tenantId, given |-> given,
   called |-> called, id |-> id, stored |-> stored, threw |-> how = "threw",
   success |-> how = "returned", error |-> error]

\* createCustomer(tenantId, customerPayload): result is what tryEndpoints
\* gives, fault the outcome of the update of the tenants row
createCustomer_rethrows(tenantId, email, result, fault) ==
  LET customerId == Or3(result.ids[1], result.ids[2],
                        Or3(result.ids[3], result.ids[4], ""))
      throw(called, error) ==
        /\ op' = Ended("createCustomer", tenantId, "", called, "", FALSE,
                       "threw", error)
        /\ UNCHANGED tenants
  IN  IF tenantId = "" THEN throw(FALSE, "tenantId is required")
      ELSE IF email = "" THEN throw(FALSE, "email is required")
      ELSE IF result.threw # "" THEN throw(TRUE, result.threw)
      ELSE IF ~result.ok THEN throw(TRUE, "createCustomer failed")
      ELSE IF customerId = "" THEN throw(TRUE, "no customer ID")
      ELSE /\ tenants' = IF fault = "ok"
                           THEN [tenants EXCEPT ![tenantId].dodo_customer_id = customerId]
                           ELSE tenants
           /\ op' = Ended("createCustomer", tenantId, "", TRUE, customerId,
                          fault = "ok",
                          IF fault = "ok" THEN "returned" ELSE "threw", "")

createCustomer(tenantId, email, result, fault) ==
  LET customerId == Or3(result.ids[1], result.ids[2],
                        Or3(result.ids[3], result.ids[4], ""))
      throw(called, error) ==
        /\ op' = Ended("createCustomer", tenantId, "", called, "", FALSE,
                       "threw", error)
        /\ UNCHANGED tenants
  IN  IF tenantId = "" THEN throw(FALSE, "tenantId is required")
      ELSE IF email = "" THEN throw(FALSE, "email is required")
      ELSE IF result.threw # "" THEN throw(TRUE, result.threw)
      ELSE IF ~result.ok THEN throw(TRUE, "createCustomer failed")
      ELSE IF customerId = "" THEN throw(TRUE, "no customer ID")
      \* an error of the update, answered or thrown, is only logged
      ELSE /\ tenants' = IF fault = "ok"
                           THEN [tenants EXCEPT ![tenantId].dodo_customer_id = customerId]
                           ELSE tenants
           /\ op' = Ended("createCustomer", tenantId, "", TRUE, customerId,
                          fault = "ok", "returned", "")

\* the customer id createSubscription uses: the argument, or the one stored
\* in the tenant's row ("" when it cannot be had: the lookup failed or the
\* row stores none)
CustomerFor_unchecked(tenantId, dodoCustomerId, fault) ==
  IF dodoCustomerId # "" THEN dodoCustomerId ELSE "cus_0"

CustomerFor(tenantId, dodoCustomerId, fault) ==
  IF dodoCustomerId # "" THEN dodoCustomerId
  ELSE IF fault # "ok" THEN ""
  ELSE tenants[tenantId].dodo_customer_id

\* upsert(subscriptionData, {onConflict: 'tenant_id'}): the tenant's row gets
\* the columns of subscriptionData; a column it does not name keeps the value
\* the existing row has
Upsert_ignoreDuplicates(table, subscriptionData) ==
  [table EXCEPT ![subscriptionData.tenant_id] =
     IF @.exists THEN @ ELSE subscriptionData @@ [exists |-> TRUE, canceled_at |-> NULL]]

Upsert(table, subscriptionData) ==
  [table EXCEPT ![subscriptionData.tenant_id] =
     IF @.exists THEN subscriptionData @@ @
     ELSE subscriptionData @@ [exists |-> TRUE, canceled_at |-> NULL]]

\* createSubscription(tenantId, priceId, dodoCustomerId, extraPayload) with
\* extraPayload = {plan_id}; faults = outcomes of the tenants lookup, of the
\* upsert and of the insert of logSubscriptionEvent
createSubscription_writesFirst(tenantId, priceId, dodoCustomerId, plan_id, result, faults) ==
  LET customer == CustomerFor(tenantId, dodoCustomerId, faults[1])
      subscriptionId == Or3(result.ids[1], result.ids[2], result.ids[3])
      subscriptionData ==
        [tenant_id |-> tenantId,
         plan_id |-> IF plan_id # "" THEN plan_id ELSE priceId,
         status |-> IF result.status # "" THEN result.status ELSE "incomplete",
         dodo_subscription_id |-> subscriptionId,
         current_period_start |-> now,
         current_period_end |->
           IF result.current_period_end # NULL THEN result.current_period_end
           ELSE calculatePeriodEnd(now, DefaultTrialDays),
         grace_period_until |-> NULL]
      fail(called, error) ==
        /\ op' = Ended("createSubscription", tenantId, dodoCustomerId, called,
                       "", FALSE, "refused", error)
        /\ subs' = Upsert(subs, subscriptionData)
        /\ UNCHANGED ledger
  IN  IF priceId = "" THEN fail(FALSE, "priceId is required")
      ELSE IF dodoCustomerId = "" /\ faults[1] # "ok"
        THEN fail(FALSE, "Failed to fetch tenant")
      ELSE IF customer = ""
        THEN fail(FALSE, "Tenant does not have a Dodo customer id")
      ELSE IF result.threw # "" THEN fail(TRUE, result.threw)
      ELSE IF ~result.ok THEN fail(TRUE, "createSubscription failed")
      ELSE IF subscriptionId = "" THEN fail(TRUE, "no subscription ID")
      ELSE /\ subs' = IF faults[2] = "ok" THEN Upsert(subs, subscriptionData)
                      ELSE subs
           /\ ledger' = IF faults[2] # "throw" /\ faults[3] = "ok"
                          THEN Append(ledger,
                                 EventRow("", "subscription_created", tenantId,
                                   [plan_id |-> subscriptionData.plan_id,
                                    dodo_subscription_id |-> subscriptionId]))
                          ELSE ledger
           /\ op' = Ended("createSubscription", tenantId, dodoCustomerId, TRUE,
                          subscriptionId, faults[2] = "ok", "returned", "")

createSubscription(tenantId, priceId, dodoCustomerId, plan_id, result, faults) ==
  LET customer == CustomerFor(tenantId, dodoCustomerId, faults[1])
      subscriptionId == Or3(result.ids[1], result.ids[2], result.ids[3])
      subscriptionData ==
        [tenant_id |-> tenantId,
         plan_id |-> IF plan_id # "" THEN plan_id ELSE priceId,
         status |-> IF result.status # "" THEN result.status ELSE "incomplete",
         dodo_subscription_id |-> subscriptionId,
         current_period_start |-> now,
         current_period_end |->
           IF result.current_period_end # NULL THEN result.current_period_end
           ELSE calculatePeriodEnd(now, DefaultTrialDays),
         grace_period_until |-> NULL]
      fail(called, error) ==
        /\ op' = Ended("createSubscription", tenantId, dodoCustomerId, called,
                       "", FALSE, "refused", error)
        /\ UNCHANGED <<subs, ledger>>
  IN  IF priceId = "" THEN fail(FALSE, "priceId is required")
      ELSE IF dodoCustomerId = "" /\ faults[1] # "ok"
        THEN fail(FALSE, "Failed to fetch tenant")
      ELSE IF customer = ""
        THEN fail(FALSE, "Tenant does not have a Dodo customer id")
      ELSE IF result.threw # "" THEN fail(TRUE, result.threw)
      ELSE IF ~result.ok THEN fail(TRUE, "createSubscription failed")
      ELSE IF subscriptionId = "" THEN fail(TRUE, "no subscription ID")
      \* an error answered by the upsert is logged and the event is still
      \* recorded; an error thrown by it skips the event
      ELSE /\ subs' = IF faults[2] = "ok" THEN Upsert(subs, subscriptionData)
                      ELSE subs
           /\ ledger' = IF faults[2] # "throw" /\ faults[3] = "ok"
                          THEN Append(ledger,
                                 EventRow("", "subscription_created", tenantId,
                                   [plan_id |-> subscriptionData.plan_id,
                                    dodo_subscription_id |-> subscriptionId]))
                          ELSE ledger
           /\ op' = Ended("createSubscription", tenantId, dodoCustomerId, TRUE,
                          subscriptionId, faults[2] = "ok", "returned", "")

\* t1 has no subscription yet, or a cancelled one; t2 is subscribed
InitProvision ==
  /\ now = StartDay
  /\ plans = [p \in PlanIds |->
                [max_reports_per_month |-> MaxLimit, max_clients |-> NULL,
                 max_data_sources |-> NULL]]
  /\ usage = [k \in Tenants \X Months |-> NoRow]
  /\ decision = NoDecision
  /\ ledger = <<>> /\ history = <<>>
  /\ deliv = [d \in {1} |-> IdleSlot]
  /\ started = 0 /\ dispatched = <<>>
  /\ reqs = <<>> /\ credited = NothingCredited
  /\ tenants = NoCustomers /\ call = NoCall /\ op = NoOp
  /\ \E row \in {NoRow, [SubscriptionRow("t1", "sub_1", "canceled")
                           EXCEPT !.canceled_at = StartDay]} :
       subs = [t \in Tenants |->
                 IF t = "t1" THEN row ELSE SubscriptionRow("t2", "sub_2", "active")]

CustomerCreated ==
  /\ op.n < MaxCalls
  /\ \E tenantId \in {"t1", ""}, email \in {"", "a@x"}, fault \in Faults,
        result \in {ProviderFailure,
                    ProviderAnswer(<<"cus_1", "", "", "">>, ""),
                    ProviderAnswer(<<"", "", "", "cus_1">>, ""),
                    ProviderAnswer(<<"", "", "", "">>, "")} :
       \* a call refused for its arguments reads neither result nor fault
       /\ (tenantId = "" \/ email = "")
            => (result = ProviderFailure /\ fault = "ok")
       /\ createCustomer(tenantId, email, result, fault)
  /\ decision' = NoDecision
  /\ UNCHANGED <<now, store, hooks, meter, call>>

SubscriptionCreated ==
  /\ op.n < MaxCalls
  /\ \E tenantId \in {"t1"}, priceId \in {"", "price_x"},
        dodoCustomerId \in {"", "cus_1"}, plan_id \in {"", "starter"},
        faults \in {<<"ok", "ok", "ok">>, <<"error", "ok", "ok">>,
                    <<"throw", "ok", "ok">>, <<"ok", "error", "ok">>,
                    <<"ok", "throw", "ok">>, <<"ok", "ok", "error">>},
        result \in {ProviderFailure,
                    ProviderAnswer(<<"sub_3", "", "", "">>, "active"),
                    ProviderAnswer(<<"", "", "sub_1", "">>, ""),
                    ProviderAnswer(<<"", "", "", "sub_3">>, "")} :
       \* a call without priceId reads no other input, and a call given a
       \* customer id does not look the tenant up
       /\ priceId = "" => (dodoCustomerId = "" /\ plan_id = ""
                            /\ result = ProviderFailure
                            /\ faults = <<"ok", "ok", "ok">>)
       /\ dodoCustomerId # "" => faults[1] = "ok"
       /\ createSubscription(tenantId, priceId, dodoCustomerId, plan_id, result, faults)
  /\ decision' = NoDecision
  /\ UNCHANGED <<now, plans, usage, history, hooks, meter, tenants, call>>

\* a payment of t1 fails, or t2's subscription is cancelled
EventArrived ==
  \E p \in {e \in Events : e.type \in {"payment.failed", "subscription.cancelled"}} :
    Accept(1, p)

NextProvision ==
  \/ CustomerCreated
  \/ SubscriptionCreated
  \/ EventArrived
  \/ EventProcessed

SpecProvision == InitProvision /\ [][NextProvision]_vars

\* ------------------------------------------------------- resolver claims
\* the call is over and no endpoint answered with a 2xx
Failed == call.pc \in {"returned", "thrown"} /\ ~call.result.ok

\* C22 (as claimed): tryEndpoints called with candidate paths never throws;
\* when every path is exhausted it returns a result with ok = false.
C22_NeverThrows ==
  (call.pc # "idle" /\ call.paths # <<>>)
  => /\ call.pc # "thrown"
     /\ Failed => (call.pc = "returned" /\ call.result.threw = "")

\* the returned failure refers to the last error met on the i-th path
Carries(result, i) == result.error.kind # "null" /\ result.error.path = i

\* C23 (as claimed): the failure returned on exhaustion carries the last
\* error of each candidate path that was tried; with two candidate paths it
\* refers to the last error of both.
C23_EachPathsLastErrorCarried ==
  (Failed /\ Len(call.paths) = 2)
  => /\ call.pc = "returned"
     /\ \A i \in DOMAIN call.paths : Carries(call.result, i)

\* the step receives the answer `o` to a request sent to the current path
Answering(o) ==
  /\ call.pc = "request"
  /\ call'.sent[call.path] = call.sent[call.path] + 1
  /\ call'.last = [path |-> call.path, outcome |-> o]

\* C24 (as claimed): a 4xx response on a path ends the attempts on that
\* path: the call moves on to the next path (or ends) without sending
\* another request to the path that answered 4xx.
C24_ClientErrorEndsPath ==
  [][Answering(Response(404))
     => (call'.pc # "request" \/ call'.path = call.path + 1)]_vars

\* C25: paths are requested in list order, and the first 2xx response ends
\* the call at once: the result is ok and names the path that answered, no
\* later path has been requested, and nothing is requested afterwards.
C25_FirstSuccessEndsCall ==
  [][/\ \A o \in HttpOutcomes :
          /\ Answering(o) /\ o.kind = "response" /\ validateStatus(o.status)
             => /\ call'.pc = "returned" /\ call'.result.ok
                /\ call'.result.endpointUsed = call.path
                /\ \A i \in DOMAIN call.paths :
                     /\ i > call.path => call'.sent[i] = 0
                     /\ i < call.path => call'.sent[i] > 0
          /\ Answering(o) /\ call'.pc = "request"
             => call'.path \in {call.path, call.path + 1}
     /\ call.pc = "returned" => call' = call]_vars

C25_Witness ==
  /\ call.pc = "returned" /\ call.result.ok
  /\ call.result.endpointUsed = 2
  /\ call.sent[1] > 0 /\ call.sent[2] > 1

\* C26 (as claimed): no candidate path receives more than maxRetries HTTP
\* requests, so a call sends at most P x maxRetries requests over P paths.
C26_AtMostMaxRetriesPerPath ==
  call.pc # "idle" => \A i \in DOMAIN call.paths : call.sent[i] <= call.maxRetries
\* ------------------------------------------- customer and subscription claims
\* the step is a call of createCustomer or createSubscription
Calling(name) == op'.n = op.n + 1 /\ op'.name = name

\* rows of subscription_events logged by createSubscription
CreatedRows == {i \in DOMAIN ledger : ledger[i].event_type = "subscription_created"}

C28_ProviderFailureWritesNothing ==
  [][\A name \in {"createCustomer", "createSubscription"} :
       (Calling(name) /\ op'.called /\ op'.id = "")
       => /\ ~op'.success
          /\ subs' = subs /\ tenants' = tenants /\ ledger' = ledger]_vars

C28_Witness ==
  /\ op.n = 2 /\ op.name = "createSubscription" /\ op.called /\ op.id = ""
  /\ op.error = ProviderFailure.threw
  /\ tenants["t1"].dodo_customer_id # ""
  /\ ~subs["t1"].exists /\ ledger = <<>>

\* C29: createSubscription called without a customer id for a tenant whose
\* row stores none fails without calling the provider and without writing a
\* subscription row or a ledger row.
C29_NoCustomerNoSubscription ==
  [][(Calling("createSubscription") /\ op'.given = ""
        /\ tenants[op'.tenantId].dodo_customer_id = "")
     => /\ ~op'.success /\ ~op'.threw /\ op'.error # ""
        /\ ~op'.called
        /\ subs' = subs /\ ledger' = ledger]_vars

C29_Witness ==
  /\ op.name = "createSubscription" /\ op.given = "" /\ ~op.called
  /\ op.error = "Tenant does not have a Dodo customer id"
  /\ tenants["t1"].dodo_customer_id = ""
  /\ ~subs["t1"].exists /\ ledger = <<>>

\* C30: when the provider gave createCustomer a customer id and the write to
\* the tenant's row fails, createCustomer still returns success with that
\* id; it does not throw, and the tenant's row is left without the id.
C30_CustomerReturnedUnsaved ==
  [][(Calling("createCustomer") /\ op'.id # "" /\ ~op'.stored)
     => /\ op'.success /\ ~op'.threw
        /\ tenants' = tenants]_vars

C30_Witness ==
  /\ op.name = "createCustomer" /\ op.success /\ op.id = "cus_1"
  /\ ~op.stored
  /\ tenants["t1"].dodo_customer_id = ""
\* C31 (as claimed): when every request of createCustomer to the provider
\* fails, createCustomer does not throw: it returns a result with
\* success = false and an error.
C31_ProviderFailureReturned ==
  [][(Calling("createCustomer") /\ op'.called
        /\ op'.error = ProviderFailure.threw)
     => (~op'.threw /\ ~op'.success /\ op'.error # "")]_vars
\* ------------------------------------------------- from signup to the limit
\* tenant t1 has no subscription; the starter plan allows one report a month
InitJourney ==
  /\ now = StartDay
  /\ plans = [p \in PlanIds |->
                [max_reports_per_month |-> 1, max_clients |-> NULL,
                 max_data_sources |-> NULL]]
  /\ subs = [t \in Tenants |->
               IF t = "t1" THEN NoRow ELSE SubscriptionRow("t2", "sub_2", "active")]
  /\ usage = [k \in Tenants \X Months |-> NoRow]
  /\ decision = NoDecision
  /\ ledger = <<>> /\ history = <<>>
  /\ deliv = [d \in {1} |-> IdleSlot]
  /\ started = 0 /\ dispatched = <<>>
  /\ reqs = <<>> /\ credited = NothingCredited
  /\ tenants = NoCustomers /\ call = NoCall /\ op = NoOp

\* the gate is asked whether t1 may send a report; its reads answer
GateAsked == CallCheckUsageLimits("t1", "reports", <<"ok", "ok">>)

\* the provider reports a payment for a subscription of t1
PaymentArrived ==
  \E S \in {"sub_1", "sub_3"} :
    Accept(1, Event("evt_p", "", "payment.succeeded", S, "t1"))

\* a report of t1 was sent; at most two are
ReportCounted ==
  /\ Len(reqs) < 2
  /\ \E fault \in Faults : FnIncrementUsage("t1", "reports", 1, fault)

\* t1 subscribes: createSubscription is called once
Subscribed == op.n = 0 /\ SubscriptionCreated

NextJourney ==
  \/ GateAsked
  \/ Subscribed
  \/ PaymentArrived
  \/ EventProcessed
  \/ ReportCounted
  \/ FallbackSelected
  \/ FallbackWritten

SpecJourney == InitJourney /\ [][NextJourney]_vars

\* the latest step asked checkUsageLimits about t1
Asked == decision.gate = "checkUsageLimits" /\ decision.tenant = "t1"

\* createSubscription succeeded once for t1 on the starter plan, and a
\* payment.succeeded event naming the subscription it created arrived
\* afterwards and was applied
Activated ==
  /\ op.n = 1 /\ op.name = "createSubscription" /\ op.success /\ op.stored
  /\ subs["t1"].plan_id = "starter"
  /\ deliv[1].pc = "done" /\ deliv[1].fault = "ok"
  /\ deliv[1].eventType = "payment.succeeded" /\ Named(1) = op.id
  /\ \E i, j \in DOMAIN ledger :
       /\ i < j
       /\ ledger[i].event_type = "subscription_created"
       /\ ledger[j].event_id = deliv[1].eventId

\* incrementUsage(t1, 'reports', 1) ran once and its RPC answered
CountedOnce ==
  Len(reqs) = 1 /\ reqs[1].pc = "done" /\ ~reqs[1].faulted

Columns == {"reports_sent", "client_count", "data_sources_connected"}

\* the step ends call r of incrementUsage with every store request answered:
\* the increment_usage RPC succeeded, or it answered an error and the
\* fallback has made its write
Completing(r) ==
  /\ reqs'[r].kind = "incrementUsage" /\ reqs'[r].pc = "done"
  /\ \/ r \notin DOMAIN reqs /\ ~reqs'[r].faulted
     \/ r \in DOMAIN reqs /\ reqs[r].pc = "fallback_write"

\* C33 (as claimed): a call incrementUsage(tenant, counter, amount) leaves the
\* (tenant, current month) row with the named counter raised by exactly
\* amount (the row is created with that counter at amount when absent), its
\* other counters as they were, and every other row unchanged.
C33_IncrementAddsAmount ==
  [][\A r \in DOMAIN reqs' :
       Completing(r)
       => LET k == <<reqs'[r].tenant, CurrentMonth(now)>>
          IN  /\ usage'[k].exists
              /\ \A c \in Columns :
                   usage'[k][c] = Counter(k, c)
                                  + (IF c = reqs'[r].column THEN reqs'[r].amount ELSE 0)
              /\ \A j \in DOMAIN usage : j # k => usage'[j] = usage[j]]_vars
\* C34 (as claimed): whatever gate checks, report generations and increments
\* run and however they interleave, no counter of a (tenant, month) usage
\* row ever decreases, and a row that exists is never removed.
C34_CountersNeverDecrease ==
  [][\A k \in DOMAIN usage :
       usage[k].exists
       => /\ usage'[k].exists
          /\ \A c \in Columns : usage'[k][c] >= usage[k][c]]_vars

\* C35: a dispatched webhook event changes no subscription row other than
\* the rows whose dodo_subscription_id is the subscription id the event
\* carries; an event that carries none, or whose id is no row's, changes no
\* subscription row.
C35_OnlyNamedRowChanges ==
  [][\A d \in DOMAIN deliv :
       Dispatching(d)
       => \A t \in Tenants :
            subs'[t] # subs[t]
            => (Named(d) # "" /\ KeyedBy(subs[t], Named(d))
                /\ KeyedBy(subs'[t], Named(d)))]_vars

\* a payment failure of sub_1 was applied to t1's row and left t2's alone,
\* and an event that names no row of any tenant was processed
C35_Witness ==
  /\ \E d \in DOMAIN deliv :
       /\ deliv[d].pc = "done" /\ deliv[d].fault = "ok"
       /\ deliv[d].eventType = "payment.failed" /\ Named(d) = "sub_1"
  /\ \E d \in DOMAIN deliv :
       /\ deliv[d].pc = "done" /\ deliv[d].fault = "ok"
       /\ Named(d) \in {"", "sub_9"}
  /\ subs["t1"].exists /\ subs["t1"].grace_period_until # NULL
  /\ subs["t2"] = SubscriptionRow("t2", "sub_2", "active")

\* ------------------------------------------------ POST /generate requests
\* router.post('/generate', verifyWebhook, checkUsage, handler): the request
\* passes the function middleware checkUsage, which answers 429 or lets the
\* handler start generating the report
GenerateEntered ==
  \E t \in Tenants :
    LET res == FnCheckUsage(t, Joined(subs[t]), "ok",
                            usage[<<t, CurrentMonth(now)>>], "ok", now)
    IN  /\ Len(reqs) < MaxRequests
        /\ decision' = Called("checkUsage", t, "/generate", <<"ok", "ok">>, res)
        /\ reqs' = Append(reqs,
             Request(IF res.allowed THEN "generate" ELSE "done", "generate", t,
                     "reports_sent", 1, NoRow, FALSE))
        /\ UNCHANGED <<now, store, hooks, credited, gateway>>

\* the handler after generateAndSendReport returned: when the report was
\* sent, incrementUsage(tenant_id, 'reports', 1) up to the answer of its RPC
GenerateFinished ==
  \E r \in DOMAIN reqs, success \in BOOLEAN, fault \in Faults :
    LET t == reqs[r].tenant
        month == CurrentMonth(now)
    IN  /\ reqs[r].pc = "generate"
        /\ IF success /\ fault = "ok"
             THEN /\ usage' = increment_usage(usage, t, month, reqs[r].column, 1)
                  /\ credited' = Credit(t, month, reqs[r].column, 1)
                  /\ reqs' = [reqs EXCEPT ![r].pc = "done"]
             ELSE /\ UNCHANGED <<usage, credited>>
                  /\ reqs' = [reqs EXCEPT
                       ![r].pc = IF success /\ fault = "error" THEN "fallback"
                                 ELSE "done",
                       ![r].faulted = success]
        /\ decision' = NoDecision
        /\ UNCHANGED <<now, plans, subs, ledger, history, hooks, gateway>>

NextGenerate ==
  \/ GenerateEntered
  \/ GenerateFinished
  \/ FallbackSelected
  \/ FallbackWritten

SpecGenerate == InitUsage /\ [][NextGenerate]_vars

\* C36 (as claimed): for a plan with a bounded max_reports_per_month = L,
\* however concurrent report-generation requests interleave, the reports
\* counted for a tenant in a month never exceed L.
C36_NeverOverLimit ==
  \A p \in PlanIds :
    plans[p].max_reports_per_month # NULL
    => \A k \in DOMAIN usage :
         (subs[k[1]].exists /\ subs[k[1]].plan_id = p)
         => Counter(k, "reports_sent") <= plans[p].max_reports_per_month

\* ------------------------------------------- the gate after a cancellation
\* both tenants are subscribed and active; the provider's events for t1's
\* subscription are handled one after the other, days pass, and the gate is
\* asked about a report of t1
NextLapse ==
  \/ EventAccepted
  \/ EventProcessed
  \/ GateAsked
  \/ Tick

SpecLapse == InitConcurrent /\ [][NextLapse]_vars

\* C37 (as claimed): the gate never admits a tenant whose subscription status
\* is canceled, also while a grace_period_until set by an earlier payment
\* failure is still in the future.
C37_CanceledNeverAdmitted ==
  (/\ decision.gate # "none"
   /\ decision.subFault = "ok"
   /\ decision.sub.exists /\ decision.sub.status = "canceled")
  => ~decision.result.allowed

\* C38 (as claimed): canceled is terminal: a payment.succeeded or invoice.paid
\* event that is applied after the cancellation of the subscription it names
\* leaves that subscription's status canceled.
C38_CanceledIsTerminal ==
  [][\A d \in DOMAIN deliv :
       (Dispatching(d)
        /\ deliv[d].eventType \in {"payment.succeeded", "invoice.paid"})
       => \A t \in Tenants :
            (subs[t].exists /\ subs[t].status = "canceled"
             /\ KeyedBy(subs[t], Named(d)))
            => subs'[t].status = "canceled"]_vars

\* ------------------------------------ events identified by payload.data.id
\* the provider signs and delivers events of one payment: two that carry no
\* top-level id and share payload.data.id, and one that carries its own id
DataIdReceived ==
  \E d \in DOMAIN deliv :
    \E p \in {Event("", "pay_1", "payment.failed", "sub_1", "t1"),
              Event("", "pay_1", "payment.succeeded", "sub_1", "t1"),
              Event("evt_1", "pay_1", "payment.failed", "sub_1", "t1")} :
      Receive(d, p, Secret, Header(TRUE, Hmac(Secret, p), ""))

NextDataId ==
  \/ DataIdReceived
  \/ DuplicateChecked
  \/ EventStored
  \/ EventProcessed

SpecDataId == InitConcurrent /\ [][NextDataId]_vars

\* C39 (as claimed): the duplicate check never suppresses a distinct provider
\* event: a delivery is skipped as a duplicate only when the same event was
\* stored before; two different events that carry no top-level id and share
\* payload.data.id are both dispatched.
C39_OnlyRedeliveriesSkipped ==
  \A d \in DOMAIN deliv :
    (deliv[d].pc = "done" /\ deliv[d].result = "duplicate")
    => \E i \in DOMAIN ledger :
         /\ ledger[i].event_id = deliv[d].eventId
         /\ ledger[i].metadata = deliv[d].payload

====
